---- MODULE Spec2Model ----
(***************************************************************************)
(* Job processing pipeline of TScribe: the record store's Job rows, the    *)
(* RQ worker running process_job, the cooperative shutdown flag, the       *)
(* working-storage directories and the retention sweeper.                  *)
(*                                                                         *)
(* An optional value (Python's None or a value) is a sequence of length    *)
(* at most one: None is <<>> and Some(x) is <<x>>.                         *)
(***************************************************************************)
EXTENDS Integers, Sequences, FiniteSets, TLC

\* ---------------------------------------------------------------- bounds
\* Deliveries of job ids by the dispatch queue (at-least-once).
MaxDeliveries == 2
\* Segments the recognition engine yields in one run.
MaxSegs == 2
\* Advances of the clock.
MaxTicks == 1

\* ------------------------------------------------------ program constants
PctScale == 90
PctFloor == 5
PctCeil == 95
PctStep == 5
TimeStep == 30
MinDelta == 1
DoneProgress == 100
CleanupMaxAgeHours == 24

\* ------------------------------------------------------------ data types
None == <<>>
Some(x) == <<x>>

Workers == {"w1", "w2"}
JobIds == {"j1", "j2"}

\* JobStatus
QUEUED == "queued"
DOWNLOADING == "downloading"
TRANSCRIBING == "transcribing"
DONE == "done"
FAILED == "failed"
Terminal == {DONE, FAILED}

\* Languages a track or a request can carry; the defaults come first.
_DEFAULT_LANGUAGES == <<"de", "en">>
Langs == {"de", "en", "fr"}
\* Languages the recognition engine reports as info.language.
EngineLangs == {"en"}

\* Segment(start, end, text) values the caption decoders and the engine produce.
Segment(s, e, t) == [start |-> s, end |-> e, text |-> t]
SegPool == {Segment(0, 2, "a"), Segment(2, 200, "b")}

\* Media metadata yt-dlp reports: the title and the duration in seconds
\* (0.0 when the extractor gives none).
Titles == {"Title"}
Durations == {0, 100}

\* Exceptions: the type's __name__ and str(value).
Exc(k, m) == [kind |-> k, msg |-> m]
AudioErrors == {Exc("DownloadError", "Video unavailable"),
                Exc("FileNotFoundError", "yt-dlp did not produce an audio file")}
RecogErrors == {Exc("RuntimeError", "disk full")}
ShutdownInterrupt == Exc("ShutdownInterrupt",
                         "Worker received SIGTERM -- shutting down gracefully")
JobNotFound(id) == Exc("ValueError", "Job " \o id \o " not found in database")

\* Clock advances, in seconds.
TickSteps == {TimeStep}

\* A job row that does not exist, a directory that does not exist.
Absent == [exists |-> FALSE]
NoDir == -1

\* Job(id, url, language, status=QUEUED) with the column defaults.
NewJob(lang) ==
    [exists |-> TRUE, status |-> QUEUED, language |-> lang, title |-> None,
     detected_language |-> None, duration_seconds |-> None, progress |-> 0,
     result_text |-> None, result_segments_json |-> None, error |-> None,
     completed_at |-> None, source |-> None]

\* ------------------------------------------------------------- the state
VARIABLES
    jobs,        \* the record store: job id -> row or Absent
    queue,       \* job ids enqueued on the dispatch queue
    deliveries,  \* deliveries made so far
    dirs,        \* data_dir: job id -> mtime of its directory, or NoDir
    now,         \* the clock (seconds)
    ticks,       \* clock advances made so far
    shutdown,    \* worker -> _shutdown_requested of that worker process
    pc,          \* worker -> position in process_job
    loc,         \* worker -> locals of the run of process_job
    run,         \* worker -> what the current (or last) run did
    call         \* a function of the program called on its own: arguments, result

vars == <<jobs, queue, deliveries, dirs, now, ticks, shutdown, pc, loc, run, call>>

\* Locals of process_job: job_id, language, subtitle_info, result (the
\* download), last_reported, the segments list of transcribe_audio, the
\* exception being handled and the one propagating out of the handler.
NoLocals ==
    [job_id |-> None, language |-> None, subtitle_info |-> None, result |-> None,
     last_reported |-> [pct |-> 0, time |-> 0], segments |-> <<>>,
     exc |-> None, raising |-> None]

\* The locals still read once the try block is left: job_id and the
\* exceptions.
AfterTry(l) == [NoLocals EXCEPT !.job_id = l.job_id, !.exc = l.exc,
                                !.raising = l.raising]

\* What a run did: how it ended, the statuses it committed and the progress
\* value it committed last, whether its row was found missing or deleted,
\* how often it invoked extract_audio, transcribe_audio and check_shutdown,
\* what yt-dlp answered to the caption fetch, whether the shutdown flag was
\* set before a first segment was delivered, whether it wrote a result,
\* whether delete_job removed its row while it was going and left no
\* directory of the job.
NoRun ==
    [outcome |-> "none", trace |-> <<>>, gone |-> FALSE, audio |-> 0, recog |-> 0,
     checks |-> 0, prog |-> None, captions |-> None, early_stop |-> FALSE,
     wrote_result |-> FALSE, purged |-> FALSE]

\* No function is being called on its own.
NoCall == [fn |-> "none"]

\* The service before any request.
Idle ==
    /\ jobs = [j \in JobIds |-> Absent]
    /\ queue = {}
    /\ deliveries = 0
    /\ dirs = [j \in JobIds |-> NoDir]
    /\ now = 0
    /\ ticks = 0
    /\ shutdown = [w \in Workers |-> FALSE]
    /\ pc = [w \in Workers |-> "idle"]
    /\ loc = [w \in Workers |-> NoLocals]
    /\ run = [w \in Workers |-> NoRun]

Init == Idle /\ call = NoCall


\* ------------------------------------------------------- pure functions
Min(a, b) == IF a < b THEN a ELSE b
InSeq(x, s) == \E i \in 1..Len(s) : s[i] = x

\* _update_job: setattr(job, key, value) for every keyword, then commit.
\* The caller decides on store[id].exists (ValueError when the row is gone).
_update_job(store, id, kwargs) ==
    LET job == store[id]
    IN  [store EXCEPT ![id] =
            [k \in DOMAIN job |-> IF k \in DOMAIN kwargs THEN kwargs[k] ELSE job[k]]]

\* A faulty _format_error: the message without the type's name.
_format_error_message_only(exc) ==
    IF exc = None THEN "Unknown error" ELSE exc[1].msg

\* _format_error: "<type name>: <message>" of the exception being handled.
_format_error(exc) ==
    IF exc = None THEN "Unknown error"
    ELSE exc[1].kind \o ": " \o exc[1].msg

\* "\n".join(seg.text for seg in segments)
RECURSIVE JoinLines(_)
JoinLines(segs) ==
    IF segs = <<>> THEN ""
    ELSE IF Len(segs) = 1 THEN segs[1].text
    ELSE segs[1].text \o "\n" \o JoinLines(Tail(segs))

\* A faulty segments_data: the segments in reverse order.
segments_data_reversed(segs) ==
    [i \in 1..Len(segs) |->
        [start |-> segs[Len(segs) + 1 - i].start, end |-> segs[Len(segs) + 1 - i].end,
         text |-> segs[Len(segs) + 1 - i].text]]

\* [{"start": seg.start, "end": seg.end, "text": seg.text} for seg in segments]
segments_data(segs) ==
    [i \in 1..Len(segs) |->
        [start |-> segs[i].start, end |-> segs[i].end, text |-> segs[i].text]]

\* A faulty current_pct: the ceiling of 95 is not applied.
current_pct_uncapped(seg_end, total_duration) ==
    ((seg_end * PctScale) \div total_duration) + PctFloor

\* _on_segment: min(int(segment.end / total_duration * 90) + 5, 95)
current_pct(seg_end, total_duration) ==
    Min(((seg_end * PctScale) \div total_duration) + PctFloor, PctCeil)

\* A faulty throttle test: the thresholds are exclusive.
should_report_exclusive(pct_delta, time_delta) ==
    pct_delta > PctStep \/ (time_delta > TimeStep /\ pct_delta >= MinDelta)

\* A faulty throttle test: after 30 seconds any segment is reported.
should_report_time_only(pct_delta, time_delta) ==
    pct_delta >= PctStep \/ time_delta >= TimeStep

\* A faulty throttle test: every change of at least 1 point is reported.
should_report_unthrottled(pct_delta, time_delta) ==
    pct_delta >= PctStep \/ pct_delta >= MinDelta

\* _on_segment: the throttle's test.
should_report(pct_delta, time_delta) ==
    pct_delta >= PctStep \/ (time_delta >= TimeStep /\ pct_delta >= MinDelta)

\* A faulty _select_subtitle_key: no track outside the requested and the
\* default languages is used.
_select_subtitle_key_known_only(subtitles, auto_captions, language) ==
    LET wanted == language /= None /\ language[1] /= ""
        hits == {i \in 1..Len(_DEFAULT_LANGUAGES) :
                    \/ InSeq(_DEFAULT_LANGUAGES[i], subtitles)
                    \/ InSeq(_DEFAULT_LANGUAGES[i], auto_captions)}
        first == CHOOSE i \in hits : \A k \in hits : i <= k
    IN  IF wanted /\ InSeq(language[1], subtitles) THEN Some(<<language[1], FALSE>>)
        ELSE IF wanted /\ InSeq(language[1], auto_captions) THEN Some(<<language[1], TRUE>>)
        ELSE IF hits /= {}
             THEN Some(<<_DEFAULT_LANGUAGES[first],
                         ~InSeq(_DEFAULT_LANGUAGES[first], subtitles)>>)
        ELSE None

\* _select_subtitle_key over two insertion-ordered dicts, given as the
\* sequences of their keys; language is None or Some(code).
_select_subtitle_key(subtitles, auto_captions, language) ==
    LET wanted == language /= None /\ language[1] /= ""
        hits == {i \in 1..Len(_DEFAULT_LANGUAGES) :
                    \/ InSeq(_DEFAULT_LANGUAGES[i], subtitles)
                    \/ InSeq(_DEFAULT_LANGUAGES[i], auto_captions)}
        first == CHOOSE i \in hits : \A k \in hits : i <= k
    IN  IF wanted /\ InSeq(language[1], subtitles) THEN Some(<<language[1], FALSE>>)
        ELSE IF wanted /\ InSeq(language[1], auto_captions) THEN Some(<<language[1], TRUE>>)
        ELSE IF hits /= {}
             THEN Some(<<_DEFAULT_LANGUAGES[first],
                         ~InSeq(_DEFAULT_LANGUAGES[first], subtitles)>>)
        ELSE IF subtitles /= <<>> THEN Some(<<subtitles[1], FALSE>>)
        ELSE IF auto_captions /= <<>> THEN Some(<<auto_captions[1], TRUE>>)
        ELSE None

\* What yt-dlp answers for a URL: whether extract_info raises, the metadata,
\* the two track dicts, and the segments the selected track decodes to.
TrackSeqs == {<<>>, <<"fr">>, <<"en", "fr">>}
DecodedSeqs == {<<>>, <<Segment(0, 2, "a")>>, <<Segment(0, 2, "a"), Segment(2, 200, "b")>>}
CaptionAnswers ==
    [raises : BOOLEAN, title : Titles, duration : Durations,
     subtitles : TrackSeqs, automatic_captions : TrackSeqs, decoded : DecodedSeqs]

\* A faulty fetch_subtitles: an auto-generated track is not used.
fetch_subtitles_manual_only(answer, language) ==
    LET selection == _select_subtitle_key(answer.subtitles,
                                          answer.automatic_captions, language)
    IN  IF answer.raises THEN None
        ELSE IF selection = None \/ selection[1][2] THEN None
        ELSE IF answer.decoded = <<>> THEN None
        ELSE Some([title |-> answer.title, duration |-> answer.duration,
                   segments |-> answer.decoded, language |-> selection[1][1]])

\* A faulty fetch_subtitles: a decode with no segments is returned as found.
fetch_subtitles_keeps_empty(answer, language) ==
    LET selection == _select_subtitle_key(answer.subtitles,
                                          answer.automatic_captions, language)
    IN  IF answer.raises THEN None
        ELSE IF selection = None THEN None
        ELSE Some([title |-> answer.title, duration |-> answer.duration,
                   segments |-> answer.decoded, language |-> selection[1][1]])

\* fetch_subtitles: None, or SubtitleInfo(title, duration,
\* TranscriptionResult(segments, language)).
fetch_subtitles(answer, language) ==
    LET selection == _select_subtitle_key(answer.subtitles,
                                          answer.automatic_captions, language)
    IN  IF answer.raises THEN None
        ELSE IF selection = None THEN None
        ELSE IF answer.decoded = <<>> THEN None
        ELSE Some([title |-> answer.title, duration |-> answer.duration,
                   segments |-> answer.decoded, language |-> selection[1][1]])

\* cleanup_old_files: the directories whose age exceeds the maximum.
max_age_seconds == CleanupMaxAgeHours * 3600
StaleDirs(d, t) == {j \in JobIds : d[j] /= NoDir /\ t - d[j] > max_age_seconds}

\* A faulty check_shutdown: the flag is not looked at.
check_shutdown_never(flag) == None

\* check_shutdown raises when the flag is set.
check_shutdown(flag) == IF flag THEN Some(ShutdownInterrupt) ELSE None


\* ------------------------------------------------------ run bookkeeping
JobOf(w) == loc[w].job_id[1]
Running(w) == pc[w] /= "idle"

\* The run's record after a commit of kwargs.
Committed(r, kwargs) ==
    [r EXCEPT
        !.trace = IF "status" \in DOMAIN kwargs THEN Append(@, kwargs.status) ELSE @,
        !.prog = IF "progress" \in DOMAIN kwargs THEN Some(kwargs.progress) ELSE @,
        !.wrote_result = @ \/ "result_text" \in DOMAIN kwargs]

\* A faulty write: a row that is gone is inserted again with the keywords.
TryUpdateFrom_upserting(w, kwargs, ok_pc, new_loc, r) ==
    /\ jobs' = IF jobs[JobOf(w)].exists
               THEN _update_job(jobs, JobOf(w), kwargs)
               ELSE _update_job([jobs EXCEPT ![JobOf(w)] = NewJob(None)],
                                JobOf(w), kwargs)
    /\ pc' = [pc EXCEPT ![w] = ok_pc]
    /\ loc' = [loc EXCEPT ![w] = new_loc]
    /\ run' = [run EXCEPT ![w] = Committed(r, kwargs)]

\* with Session(...): _update_job(session, job_id, **kwargs) inside the try
\* block of process_job: the commit and the move to ok_pc with locals new_loc,
\* or ValueError and the move to the except block. r is the run's record
\* when the write is made.
TryUpdateFrom(w, kwargs, ok_pc, new_loc, r) ==
    IF jobs[JobOf(w)].exists
    THEN /\ jobs' = _update_job(jobs, JobOf(w), kwargs)
         /\ pc' = [pc EXCEPT ![w] = ok_pc]
         /\ loc' = [loc EXCEPT ![w] = new_loc]
         /\ run' = [run EXCEPT ![w] = Committed(r, kwargs)]
    ELSE /\ jobs' = jobs
         /\ pc' = [pc EXCEPT ![w] = "except"]
         /\ loc' = [loc EXCEPT ![w] =
                       AfterTry([@ EXCEPT !.exc = Some(JobNotFound(JobOf(w)))])]
         /\ run' = [run EXCEPT ![w] = [r EXCEPT !.gone = TRUE]]

TryUpdate(w, kwargs, ok_pc, new_loc) == TryUpdateFrom(w, kwargs, ok_pc, new_loc, run[w])

\* ------------------------------------------------------------- the API
\* create_job: commit the row in QUEUED, then enqueue its id. Ids are
\* uuid4 values: an id is created once.
create_job(j, lang) ==
    /\ j \notin queue
    /\ jobs' = [jobs EXCEPT ![j] = NewJob(lang)]
    /\ queue' = queue \cup {j}
    /\ UNCHANGED <<deliveries, dirs, now, ticks, shutdown, pc, loc, run, call>>

\* delete_job: 404 when the row is missing; rmtree of the job directory
\* (an OSError is logged), then the row is deleted.
delete_job(j) ==
    /\ jobs[j].exists
    /\ \E rmtree_fails \in BOOLEAN :
          dirs' = IF dirs[j] /= NoDir /\ ~rmtree_fails
                  THEN [dirs EXCEPT ![j] = NoDir] ELSE dirs
    /\ jobs' = [jobs EXCEPT ![j] = Absent]
    /\ run' = [w \in Workers |->
                 IF Running(w) /\ JobOf(w) = j
                 THEN [run[w] EXCEPT !.gone = TRUE, !.purged = dirs'[j] = NoDir]
                 ELSE run[w]]
    /\ UNCHANGED <<queue, deliveries, now, ticks, shutdown, pc, loc, call>>

\* ------------------------------------------------------- the environment
\* Time passes.
Tick ==
    /\ ticks < MaxTicks
    /\ \E d \in TickSteps : now' = now + d
    /\ ticks' = ticks + 1
    /\ UNCHANGED <<jobs, queue, deliveries, dirs, shutdown, pc, loc, run, call>>

\* A faulty request_stop: a second SIGTERM clears the flag again.
request_stop_toggling(w) ==
    /\ shutdown' = [shutdown EXCEPT ![w] = ~@]
    /\ run' = [run EXCEPT ![w].early_stop =
                 @ \/ (~shutdown[w] /\ Running(w) /\ loc[w].segments = <<>>
                       /\ pc[w] \notin {"except", "finally", "cleanup"})]
    /\ UNCHANGED <<jobs, queue, deliveries, dirs, now, ticks, pc, loc, call>>

\* GracefulWorker.request_stop: SIGTERM sets the flag of the worker process.
request_stop(w) ==
    /\ shutdown' = [shutdown EXCEPT ![w] = TRUE]
    /\ run' = [run EXCEPT ![w].early_stop =
                 @ \/ (~shutdown[w] /\ Running(w) /\ loc[w].segments = <<>>
                       /\ pc[w] \notin {"except", "finally", "cleanup"})]
    /\ UNCHANGED <<jobs, queue, deliveries, dirs, now, ticks, pc, loc, call>>


\* ---------------------------------------------------------- process_job
\* An exception inside the try block: control moves to the except block.
Raise(w, e) ==
    /\ pc' = [pc EXCEPT ![w] = "except"]
    /\ loc' = [loc EXCEPT ![w] = AfterTry([@ EXCEPT !.exc = Some(e)])]

\* A faulty process_job: the loaded row is not tested for None.
process_job_unchecked(w, j) ==
    /\ pc[w] = "idle"
    /\ ~shutdown[w]
    /\ j \in queue
    /\ deliveries < MaxDeliveries
    /\ deliveries' = deliveries + 1
    /\ pc' = [pc EXCEPT ![w] = "set_downloading"]
    /\ loc' = [loc EXCEPT ![w] =
                  [NoLocals EXCEPT !.job_id = Some(j),
                                   !.language = IF jobs[j].exists
                                                THEN jobs[j].language ELSE None]]
    /\ run' = [run EXCEPT ![w] =
                  [NoRun EXCEPT !.trace = IF jobs[j].exists
                                          THEN <<jobs[j].status>> ELSE <<>>]]
    /\ UNCHANGED <<jobs, queue, dirs, now, ticks, shutdown, call>>

\* The dispatch queue hands job id j to worker w (a worker that was asked
\* to stop takes no further job); process_job loads the row and returns
\* at once when there is none.
process_job(w, j) ==
    /\ pc[w] = "idle"
    /\ ~shutdown[w]
    /\ j \in queue
    /\ deliveries < MaxDeliveries
    /\ deliveries' = deliveries + 1
    /\ IF jobs[j].exists
       THEN /\ pc' = [pc EXCEPT ![w] = "set_downloading"]
            /\ loc' = [loc EXCEPT ![w] =
                          [NoLocals EXCEPT !.job_id = Some(j),
                                           !.language = jobs[j].language]]
            /\ run' = [run EXCEPT ![w] =
                          [NoRun EXCEPT !.trace = <<jobs[j].status>>]]
       ELSE /\ pc' = pc
            /\ loc' = [loc EXCEPT ![w] = [NoLocals EXCEPT !.job_id = Some(j)]]
            /\ run' = [run EXCEPT ![w] =
                          [NoRun EXCEPT !.outcome = "returned", !.gone = TRUE]]
    /\ UNCHANGED <<jobs, queue, dirs, now, ticks, shutdown, call>>

\* A faulty first write: the status of the next phase.
DownloadingUpdate_wrong_status == [status |-> TRANSCRIBING]

\* The keywords of the first write.
DownloadingUpdate == [status |-> DOWNLOADING]

\* _update_job(status=DOWNLOADING)
set_downloading(w) ==
    /\ pc[w] = "set_downloading"
    /\ TryUpdate(w, DownloadingUpdate, "fetch_subtitles", loc[w])
    /\ UNCHANGED <<queue, deliveries, dirs, now, ticks, shutdown, call>>

\* What the answer holds: whether a track exists and decodes to at least
\* one segment and, when it does, the selected track's key, the metadata
\* and the decoded segments.
Usable(answer) ==
    /\ ~answer.raises
    /\ answer.subtitles /= <<>> \/ answer.automatic_captions /= <<>>
    /\ answer.decoded /= <<>>
Answered(answer, language) ==
    [usable |-> Usable(answer),
     found |-> IF Usable(answer)
               THEN Some([key |-> _select_subtitle_key(answer.subtitles,
                                      answer.automatic_captions, language)[1][1],
                          title |-> answer.title, duration |-> answer.duration,
                          decoded |-> answer.decoded])
               ELSE None]

\* subtitle_info = fetch_subtitles(url, language)
try_subtitles(w) ==
    /\ pc[w] = "fetch_subtitles"
    /\ \E answer \in CaptionAnswers :
          LET info == fetch_subtitles(answer, loc[w].language)
          IN  /\ loc' = [loc EXCEPT ![w].subtitle_info = info]
              /\ pc' = [pc EXCEPT ![w] =
                           IF info /= None THEN "finish_subtitles" ELSE "extract_audio"]
              /\ run' = [run EXCEPT ![w].captions = Some(Answered(answer, loc[w].language))]
    /\ UNCHANGED <<jobs, queue, deliveries, dirs, now, ticks, shutdown, call>>

\* A faulty final write of the fast path: the status is left out.
SubtitleResult_no_status(info, t) ==
    [progress |-> DoneProgress, title |-> Some(info.title),
     duration_seconds |-> Some(info.duration),
     result_text |-> Some(JoinLines(info.segments)),
     result_segments_json |-> Some(segments_data(info.segments)),
     detected_language |-> Some(info.language), completed_at |-> Some(t),
     source |-> Some("subtitles")]

\* The keywords of the fast path's final write.
SubtitleResult(info, t) ==
    [status |-> DONE, progress |-> DoneProgress, title |-> Some(info.title),
     duration_seconds |-> Some(info.duration),
     result_text |-> Some(JoinLines(info.segments)),
     result_segments_json |-> Some(segments_data(info.segments)),
     detected_language |-> Some(info.language), completed_at |-> Some(t),
     source |-> Some("subtitles")]

\* Fast path: the subtitles are the result.
finish_subtitles(w) ==
    /\ pc[w] = "finish_subtitles"
    /\ TryUpdate(w, SubtitleResult(loc[w].subtitle_info[1], now), "finally",
                 AfterTry(loc[w]))
    /\ UNCHANGED <<queue, deliveries, dirs, now, ticks, shutdown, call>>

\* result = extract_audio(url, job_id): the job directory is made, then
\* yt-dlp downloads into it or raises.
extract_audio(w) ==
    /\ pc[w] = "extract_audio"
    /\ run' = [run EXCEPT ![w].audio = @ + 1]
    /\ \/ \E e \in AudioErrors :
            /\ Raise(w, e)
            /\ dirs' = IF dirs[JobOf(w)] = NoDir
                       THEN [dirs EXCEPT ![JobOf(w)] = now] ELSE dirs
       \/ \E t \in Titles, d \in Durations :
            /\ loc' = [loc EXCEPT ![w].result = Some([title |-> t, duration |-> d])]
            /\ pc' = [pc EXCEPT ![w] = "set_transcribing"]
            /\ dirs' = [dirs EXCEPT ![JobOf(w)] = now]
    /\ UNCHANGED <<jobs, queue, deliveries, now, ticks, shutdown, call>>

\* A faulty write at the start of the transcription phase: no progress.
TranscribingUpdate_no_progress(result) ==
    [status |-> TRANSCRIBING, title |-> Some(result.title),
     duration_seconds |-> Some(result.duration)]

\* The keywords of the write that opens the transcription phase.
TranscribingUpdate(result) ==
    [status |-> TRANSCRIBING, title |-> Some(result.title),
     duration_seconds |-> Some(result.duration), progress |-> PctFloor]

\* _update_job(status=TRANSCRIBING, title, duration_seconds, progress=5),
\* then last_reported = {"pct": 5, "time": time.monotonic()}
set_transcribing(w) ==
    /\ pc[w] = "set_transcribing"
    /\ TryUpdate(w, TranscribingUpdate(loc[w].result[1]), "transcribe_audio",
                 [loc[w] EXCEPT !.last_reported = [pct |-> PctFloor, time |-> now]])
    /\ UNCHANGED <<queue, deliveries, dirs, now, ticks, shutdown, call>>

\* transcribe_audio is entered: _get_model() and model.transcribe(...) give
\* the segment iterator or raise.
transcribe_audio(w) ==
    /\ pc[w] = "transcribe_audio"
    /\ run' = [run EXCEPT ![w].recog = @ + 1]
    /\ \/ \E e \in RecogErrors : Raise(w, e)
       \/ /\ pc' = [pc EXCEPT ![w] = "segments"]
          /\ loc' = loc
    /\ UNCHANGED <<jobs, queue, deliveries, dirs, now, ticks, shutdown, call>>

\* A faulty _on_segment: last_reported is updated but the progress is not
\* committed to the row.
_on_segment_uncommitted(w, seg, new_loc) ==
    LET total_duration == loc[w].result[1].duration
        pct == current_pct(seg.end, total_duration)
        pct_delta == pct - loc[w].last_reported.pct
        time_delta == now - loc[w].last_reported.time
    IN  /\ loc' = [loc EXCEPT ![w] =
                      IF total_duration <= 0 \/ ~should_report(pct_delta, time_delta)
                      THEN new_loc
                      ELSE [new_loc EXCEPT !.last_reported = [pct |-> pct, time |-> now]]]
        /\ run' = [run EXCEPT ![w].checks = @ + 1]
        /\ UNCHANGED <<jobs, pc>>

\* _on_segment(segment): the throttled progress write.
_on_segment(w, seg, new_loc) ==
    LET total_duration == loc[w].result[1].duration
        pct == current_pct(seg.end, total_duration)
        pct_delta == pct - loc[w].last_reported.pct
        time_delta == now - loc[w].last_reported.time
    IN  IF total_duration <= 0 \/ ~should_report(pct_delta, time_delta)
        THEN /\ loc' = [loc EXCEPT ![w] = new_loc]
             /\ run' = [run EXCEPT ![w].checks = @ + 1]
             /\ UNCHANGED <<jobs, pc>>
        ELSE TryUpdateFrom(w, [progress |-> pct], "segments",
                           [new_loc EXCEPT !.last_reported = [pct |-> pct, time |-> now]],
                           [run[w] EXCEPT !.checks = @ + 1])

\* A faulty loop: the segment is reported to the callback's progress write
\* before the flag is looked at.
next_segment_check_late(w) ==
    /\ pc[w] = "segments"
    /\ Len(loc[w].segments) < MaxSegs
    /\ \E seg \in SegPool :
          IF check_shutdown(shutdown[w]) /= None
          THEN LET total_duration == loc[w].result[1].duration
                   pct == current_pct(seg.end, total_duration)
                   written == total_duration > 0 /\ jobs[JobOf(w)].exists
               IN  /\ Raise(w, check_shutdown(shutdown[w])[1])
                   /\ run' = [run EXCEPT ![w].checks = @ + 1,
                                         ![w].prog = IF written THEN Some(pct) ELSE @]
                   /\ jobs' = IF written
                              THEN _update_job(jobs, JobOf(w), [progress |-> pct])
                              ELSE jobs
          ELSE _on_segment(w, seg, [loc[w] EXCEPT !.segments = Append(@, seg)])
    /\ UNCHANGED <<queue, deliveries, dirs, now, ticks, shutdown, call>>

\* One turn of the loop of transcribe_audio: the engine yields a segment,
\* check_shutdown(), segments.append(segment), on_segment(segment).
next_segment(w) ==
    /\ pc[w] = "segments"
    /\ Len(loc[w].segments) < MaxSegs
    /\ \E seg \in SegPool :
          IF check_shutdown(shutdown[w]) /= None
          THEN /\ Raise(w, check_shutdown(shutdown[w])[1])
               /\ run' = [run EXCEPT ![w].checks = @ + 1]
               /\ jobs' = jobs
          ELSE _on_segment(w, seg, [loc[w] EXCEPT !.segments = Append(@, seg)])
    /\ UNCHANGED <<queue, deliveries, dirs, now, ticks, shutdown, call>>

\* The engine raises while the loop asks it for the next segment.
engine_raises(w) ==
    /\ pc[w] = "segments"
    /\ \E e \in RecogErrors : Raise(w, e)
    /\ UNCHANGED <<jobs, queue, deliveries, dirs, now, ticks, shutdown, run, call>>

\* The keywords of the slow path's final write.
WhisperResult(segs, lang, t) ==
    [status |-> DONE, progress |-> DoneProgress,
     result_text |-> Some(JoinLines(segs)),
     result_segments_json |-> Some(segments_data(segs)),
     detected_language |-> Some(lang), completed_at |-> Some(t),
     source |-> Some("whisper")]

\* The iterator is exhausted: transcribe_audio returns its segments and
\* info.language, and the result is stored.
store_results(w) ==
    /\ pc[w] = "segments"
    /\ \E lang \in EngineLangs :
          TryUpdate(w, WhisperResult(loc[w].segments, lang, now), "finally",
                    AfterTry(loc[w]))
    /\ UNCHANGED <<queue, deliveries, dirs, now, ticks, shutdown, call>>

\* A faulty write of the except block: the status is left out.
FailedUpdate_no_status(exc, t) ==
    [error |-> Some(_format_error(exc)), completed_at |-> Some(t)]

\* The keywords of the write of the except block.
FailedUpdate(exc, t) ==
    [status |-> FAILED, error |-> Some(_format_error(exc)), completed_at |-> Some(t)]

\* except Exception: the FAILED write. _update_job raises again when the
\* row is gone, and that exception leaves process_job after the finally block.
handle_exception(w) ==
    /\ pc[w] = "except"
    /\ pc' = [pc EXCEPT ![w] = "finally"]
    /\ IF jobs[JobOf(w)].exists
       THEN /\ jobs' = _update_job(jobs, JobOf(w), FailedUpdate(loc[w].exc, now))
            /\ run' = [run EXCEPT ![w] = Committed(@, FailedUpdate(loc[w].exc, now))]
            /\ loc' = loc
       ELSE /\ jobs' = jobs
            /\ run' = [run EXCEPT ![w].gone = TRUE]
            /\ loc' = [loc EXCEPT ![w].raising = Some(JobNotFound(JobOf(w)))]
    /\ UNCHANGED <<queue, deliveries, dirs, now, ticks, shutdown, call>>

\* A faulty finally block: an error of rmtree is not ignored and leaves
\* process_job before the sweep.
remove_job_dir_raising(w) ==
    /\ pc[w] = "finally"
    /\ \E rmtree_fails \in BOOLEAN :
          IF dirs[JobOf(w)] /= NoDir /\ rmtree_fails
          THEN /\ pc' = [pc EXCEPT ![w] = "idle"]
               /\ run' = [run EXCEPT ![w].outcome = "raised"]
               /\ dirs' = dirs
          ELSE /\ pc' = [pc EXCEPT ![w] = "cleanup"]
               /\ run' = run
               /\ dirs' = [dirs EXCEPT ![JobOf(w)] = NoDir]
    /\ UNCHANGED <<jobs, queue, deliveries, now, ticks, shutdown, loc, call>>

\* finally: shutil.rmtree(job_dir, ignore_errors=True) when it exists.
remove_job_dir(w) ==
    /\ pc[w] = "finally"
    /\ pc' = [pc EXCEPT ![w] = "cleanup"]
    /\ \E rmtree_fails \in BOOLEAN :
          dirs' = IF dirs[JobOf(w)] /= NoDir /\ ~rmtree_fails
                  THEN [dirs EXCEPT ![JobOf(w)] = NoDir] ELSE dirs
    /\ UNCHANGED <<jobs, queue, deliveries, now, ticks, shutdown, loc, run, call>>

\* cleanup_old_files: rmtree(ignore_errors=True) of every stale directory.
cleanup_old_files(d, t, failing) ==
    [j \in JobIds |-> IF j \in StaleDirs(d, t) \ failing THEN NoDir ELSE d[j]]

\* finally: the sweep, whose exceptions are logged; then process_job
\* returns, or the exception of the except block propagates.
run_cleanup(w) ==
    /\ pc[w] = "cleanup"
    /\ pc' = [pc EXCEPT ![w] = "idle"]
    /\ \E failing \in SUBSET StaleDirs(dirs, now) :
          dirs' = cleanup_old_files(dirs, now, failing)
    /\ run' = [run EXCEPT ![w].outcome = IF loc[w].raising = None
                                      THEN "returned" ELSE "raised"]
    /\ loc' = [loc EXCEPT ![w] = [NoLocals EXCEPT !.job_id = loc[w].job_id,
                                                  !.exc = loc[w].exc]]
    /\ UNCHANGED <<jobs, queue, deliveries, now, ticks, shutdown, call>>

\* ------------------------------------------------------ specifications
RequestLangs == {None, Some("fr")}

WorkerStep(w) ==
    \/ \E j \in JobIds : process_job(w, j)
    \/ set_downloading(w)
    \/ try_subtitles(w)
    \/ finish_subtitles(w)
    \/ extract_audio(w)
    \/ set_transcribing(w)
    \/ transcribe_audio(w)
    \/ next_segment(w)
    \/ engine_raises(w)
    \/ store_results(w)
    \/ handle_exception(w)
    \/ remove_job_dir(w)
    \/ run_cleanup(w)

\* One worker process and one job.
Next ==
    \/ \E lang \in RequestLangs : create_job("j1", lang)
    \/ delete_job("j1")
    \/ Tick
    \/ request_stop("w1")
    \/ WorkerStep("w1")

Spec == Init /\ [][Next]_vars


\* The worker's steps are taken as long as one is possible: every call of a
\* collaborator returns or raises.
FairSpec == Spec /\ WF_vars(WorkerStep("w1"))

\* ---------------------------------------------------------------- claims
Last(s) == s[Len(s)]
IsPrefix(s, t) == Len(s) <= Len(t) /\ \A i \in 1..Len(s) : s[i] = t[i]
\* The run of worker w found its job and has ended.
Ended(w) == pc[w] = "idle" /\ run[w].outcome /= "none" /\ run[w].trace /= <<>>
\* The run's row was there at each of its writes and is there now.
Kept(w) == ~run[w].gone /\ jobs[JobOf(w)].exists
Label(e) == e.kind \o ": " \o e.msg

\* C1 (as stated): once a job's status is DONE or FAILED, no later write
\* changes its status, progress, result_text, result_segments_json or error
\* (so at most one of DONE and FAILED is ever committed for it), whatever
\* deliveries of its id follow.
C1_TerminalIsFinal ==
    [][\A j \in JobIds :
          (jobs[j].exists /\ jobs[j].status \in Terminal /\ jobs'[j].exists)
          => /\ jobs'[j].status = jobs[j].status
             /\ jobs'[j].progress = jobs[j].progress
             /\ jobs'[j].result_text = jobs[j].result_text
             /\ jobs'[j].result_segments_json = jobs[j].result_segments_json
             /\ jobs'[j].error = jobs[j].error]_vars

\* C2: a run on a job that starts in QUEUED and exists throughout commits
\* the statuses of one of the four allowed sequences, in that order, and has
\* committed a whole one when it ends; the row's status is the last one.
AllowedTraces ==
    {<<QUEUED, DOWNLOADING, DONE>>, <<QUEUED, DOWNLOADING, TRANSCRIBING, DONE>>,
     <<QUEUED, DOWNLOADING, FAILED>>, <<QUEUED, DOWNLOADING, TRANSCRIBING, FAILED>>}
C2_StatusSequence ==
    \A w \in Workers :
        (run[w].trace /= <<>> /\ run[w].trace[1] = QUEUED /\ ~run[w].gone)
        => /\ \E t \in AllowedTraces : IsPrefix(run[w].trace, t)
           /\ Ended(w) => run[w].trace \in AllowedTraces
           /\ (Running(w) \/ Ended(w)) /\ jobs[JobOf(w)].exists
                 => jobs[JobOf(w)].status = Last(run[w].trace)
C2_Witness ==
    \E w \in Workers :
        Ended(w) /\ Kept(w)
        /\ run[w].trace = <<QUEUED, DOWNLOADING, TRANSCRIBING, DONE>>

\* C3: every run that found its job ends; unless the row was deleted under
\* it, the last status it committed is DONE or FAILED; and when it ends the
\* row, if there is one, is DONE or FAILED.
C3_RunEndsTerminal ==
    \A w \in Workers :
        (pc[w] = "set_downloading")
        ~> /\ Ended(w)
           /\ run[w].gone \/ Last(run[w].trace) \in Terminal
           /\ jobs[JobOf(w)].exists => jobs[JobOf(w)].status \in Terminal
C3_Witness ==
    \E w \in Workers :
        Ended(w) /\ Kept(w) /\ Last(run[w].trace) = FAILED
        /\ jobs[JobOf(w)].status = FAILED

\* C4 (as stated): no run of process_job raises to its caller.
C4_NeverRaises == \A w \in Workers : run[w].outcome /= "raised"

\* C5: when the caption fetch yields a non-empty segment sequence the run
\* invokes neither extract_audio nor transcribe_audio, and it ends with the
\* row DONE, progress 100, source "subtitles", the selected track's key as
\* detected_language, the caption metadata's title and duration, and
\* completed_at set.
C5_FastPath ==
    \A w \in Workers :
        (run[w].captions /= None /\ run[w].captions[1].usable)
        => /\ run[w].audio = 0 /\ run[w].recog = 0
           /\ (Ended(w) /\ Kept(w))
              => LET job == jobs[JobOf(w)]
                     found == run[w].captions[1].found[1]
                 IN  /\ Last(run[w].trace) = DONE
                     /\ job.status = DONE
                     /\ job.progress = 100
                     /\ job.source = Some("subtitles")
                     /\ job.detected_language = Some(found.key)
                     /\ job.title = Some(found.title)
                     /\ job.duration_seconds = Some(found.duration)
                     /\ job.completed_at /= None
C5_Witness ==
    \E w \in Workers :
        /\ Ended(w) /\ Kept(w)
        /\ run[w].captions /= None /\ run[w].captions[1].usable
        /\ jobs[JobOf(w)].source = Some("subtitles")


\* C6 (as stated): a run whose caption fetch raises, finds no track or
\* decodes to zero segments invokes extract_audio exactly once and
\* transcribe_audio exactly once, and is DONE with source "whisper" when
\* neither raised.
C6_FallbackAsStated ==
    \A w \in Workers :
        (Ended(w) /\ ~run[w].gone /\ run[w].captions /= None
                  /\ ~run[w].captions[1].usable)
        => /\ run[w].audio = 1
           /\ run[w].recog = 1
           /\ loc[w].exc = None => Last(run[w].trace) = DONE

\* C6 (amended): such a run invokes extract_audio exactly once; it then
\* invokes transcribe_audio exactly once when extract_audio returned (the
\* TRANSCRIBING write was made) and not at all when extract_audio raised;
\* no run invokes transcribe_audio before extract_audio or either twice;
\* when neither raised, the row is DONE with source "whisper".
C6_Fallback ==
    \A w \in Workers :
        /\ run[w].recog <= run[w].audio /\ run[w].audio <= 1
        /\ (Ended(w) /\ ~run[w].gone /\ run[w].captions /= None
                     /\ ~run[w].captions[1].usable)
           => /\ run[w].audio = 1
              /\ run[w].recog = IF InSeq(TRANSCRIBING, run[w].trace) THEN 1 ELSE 0
              /\ run[w].recog = 0
                    => loc[w].exc /= None /\ loc[w].exc[1] \in AudioErrors
              /\ loc[w].exc = None
                    => /\ Last(run[w].trace) = DONE
                       /\ jobs[JobOf(w)].exists
                             => /\ jobs[JobOf(w)].status = DONE
                                /\ jobs[JobOf(w)].source = Some("whisper")
C6_Witness ==
    \E w \in Workers :
        /\ Ended(w) /\ Kept(w)
        /\ run[w].captions /= None /\ ~run[w].captions[1].usable
        /\ run[w].audio = 1 /\ run[w].recog = 1
        /\ jobs[JobOf(w)].status = DONE /\ jobs[JobOf(w)].source = Some("whisper")

\* C7: when extract_audio or the recognition raised an exception of kind K
\* with message M, the row is FAILED with error "K: M" and completed_at
\* set, and the run wrote no result.
C7_FailureRecorded ==
    \A w \in Workers :
        (/\ pc[w] \in {"finally", "cleanup", "idle"}
         /\ run[w].trace /= <<>>
         /\ loc[w].exc /= None
         /\ loc[w].exc[1] \in AudioErrors \cup RecogErrors
         /\ Kept(w))
        => LET job == jobs[JobOf(w)]
           IN  /\ job.status = FAILED
               /\ job.error = Some(Label(loc[w].exc[1]))
               /\ job.completed_at /= None
               /\ ~run[w].wrote_result
               /\ run[w].trace[1] = QUEUED
                     => job.result_text = None /\ job.result_segments_json = None
C7_Witness ==
    \E w \in Workers :
        /\ Ended(w) /\ Kept(w)
        /\ loc[w].exc = Some(Exc("RuntimeError", "disk full"))
        /\ jobs[JobOf(w)].error = Some("RuntimeError: disk full")

CancelLabel == "ShutdownInterrupt: Worker received SIGTERM -- shutting down gracefully"

\* C8 (as stated): a run during which the shutdown flag was set before any
\* segment was delivered ends with the row FAILED and the cancellation label.
C8_CancelAsStated ==
    \A w \in Workers :
        (Ended(w) /\ Kept(w) /\ run[w].early_stop)
        => /\ jobs[JobOf(w)].status = FAILED
           /\ jobs[JobOf(w)].error = Some(CancelLabel)

\* C8 (amended): when the flag was set before any segment was delivered and
\* the engine then yields a first segment, the run accepts no segment, never
\* commits DONE and ends with the row FAILED and the cancellation label,
\* which no other failure produces.
C8_Cancellation ==
    /\ \A e \in AudioErrors \cup RecogErrors \cup {JobNotFound(j) : j \in JobIds} :
          Label(e) /= CancelLabel
    /\ \A w \in Workers :
          (Ended(w) /\ Kept(w) /\ run[w].early_stop /\ run[w].checks >= 1)
          => /\ run[w].checks = 1
             /\ \A i \in 2..Len(run[w].trace) : run[w].trace[i] /= DONE
             /\ ~run[w].wrote_result
             /\ jobs[JobOf(w)].status = FAILED
             /\ jobs[JobOf(w)].error = Some(CancelLabel)
C8_Witness ==
    \E w \in Workers :
        /\ Ended(w) /\ Kept(w) /\ run[w].early_stop /\ run[w].checks >= 1
        /\ jobs[JobOf(w)].error = Some(CancelLabel)

\* C9: every stored progress value is an integer in 0..100, and within a run
\* each progress value committed is at least the one committed before it
\* (and, for a run that started from QUEUED, at least the stored one).
C9_ProgressMonotone ==
    /\ [](\A j \in JobIds : jobs[j].exists => jobs[j].progress \in 0..100)
    /\ [][\A w \in Workers :
             (Running(w) /\ run'[w].prog /= run[w].prog)
             => /\ run'[w].prog[1] \in 0..100
                /\ run[w].prog /= None => run'[w].prog[1] >= run[w].prog[1]
                /\ jobs'[JobOf(w)].progress = run'[w].prog[1]
                /\ run[w].trace[1] = QUEUED
                      => jobs'[JobOf(w)].progress >= jobs[JobOf(w)].progress]_vars
C9_Witness ==
    \E w \in Workers :
        /\ Ended(w) /\ Kept(w) /\ Len(run[w].trace) = 4
        /\ jobs[JobOf(w)].progress = 100
        /\ jobs[JobOf(w)].duration_seconds = Some(100)

\* C10: a progress update emitted by the per-segment callback is strictly
\* greater than the one emitted before it (5 at first), and none is emitted
\* when the total duration is <= 0.
C10_Throttle ==
    [][\A w \in Workers :
          (pc[w] = "segments" /\ pc'[w] = "segments")
          => LET old == loc[w].last_reported
                 new == loc'[w].last_reported
                 emitted == new /= old \/ run'[w].prog /= run[w].prog
             IN  /\ emitted => /\ new.pct > old.pct
                               /\ run'[w].prog = Some(new.pct)
                               /\ jobs'[JobOf(w)].progress = new.pct
                 /\ loc[w].result[1].duration <= 0 => ~emitted]_vars
C10_Witness ==
    \E w \in Workers :
        /\ pc[w] = "segments" /\ Len(loc[w].segments) = 2
        /\ loc[w].last_reported.pct = PctCeil
        /\ loc[w].last_reported.time > 0

\* ------------------------------------------- the recognition phase alone
\* The loop of transcribe_audio with the callback of process_job, from the
\* state in which transcribe_audio has just been entered: the row is
\* TRANSCRIBING with progress 5 and last_reported = {pct: 5, time: now}.
\* Segment ends and clock advances are chosen around the thresholds.
MaxLoopSegs == 3
MaxElapses == 2
LoopDurations == {0, 100}
LoopEnds == {1, 2, 5, 6, 100, 200}
ElapseSteps == {1, 29}

Recognising(total_duration) ==
    LET result == [title |-> "Title", duration |-> total_duration]
    IN  /\ jobs = [j \in JobIds |->
                     IF j = "j1"
                     THEN [NewJob(None) EXCEPT
                              !.status = TRANSCRIBING, !.title = Some(result.title),
                              !.duration_seconds = Some(result.duration),
                              !.progress = PctFloor]
                     ELSE Absent]
        /\ queue = {"j1"}
        /\ deliveries = 1
        /\ dirs = [j \in JobIds |-> IF j = "j1" THEN 0 ELSE NoDir]
        /\ now = 0
        /\ ticks = 0
        /\ shutdown = [w \in Workers |-> FALSE]
        /\ pc = [w \in Workers |-> IF w = "w1" THEN "segments" ELSE "idle"]
        /\ loc = [w \in Workers |->
                    IF w = "w1"
                    THEN [NoLocals EXCEPT
                             !.job_id = Some("j1"), !.result = Some(result),
                             !.last_reported = [pct |-> PctFloor, time |-> 0]]
                    ELSE NoLocals]
        /\ run = [w \in Workers |->
                    IF w = "w1"
                    THEN [NoRun EXCEPT
                             !.trace = <<QUEUED, DOWNLOADING, TRANSCRIBING>>,
                             !.audio = 1, !.recog = 1, !.prog = Some(PctFloor),
                             !.captions = Some([usable |-> FALSE, found |-> None])]
                    ELSE NoRun]

InRecognition(total_duration) == Recognising(total_duration) /\ call = NoCall

LoopInit == \E d \in LoopDurations : InRecognition(d)

\* time.monotonic() advances between two segments.
Elapse ==
    /\ ticks < MaxElapses
    /\ \E d \in ElapseSteps : now' = now + d
    /\ ticks' = ticks + 1
    /\ UNCHANGED <<jobs, queue, deliveries, dirs, shutdown, pc, loc, run, call>>

\* One turn of the loop with a segment ending at one of LoopEnds.
loop_segment(w) ==
    /\ pc[w] = "segments"
    /\ Len(loc[w].segments) < MaxLoopSegs
    /\ \E e \in LoopEnds :
          LET seg == Segment(0, e, "a")
          IN  IF check_shutdown(shutdown[w]) /= None
              THEN /\ Raise(w, check_shutdown(shutdown[w])[1])
                   /\ run' = [run EXCEPT ![w].checks = @ + 1]
                   /\ jobs' = jobs
              ELSE _on_segment(w, seg, [loc[w] EXCEPT !.segments = Append(@, seg)])
    /\ UNCHANGED <<queue, deliveries, dirs, now, ticks, shutdown, call>>

LoopNext ==
    \/ Elapse
    \/ loop_segment("w1")
    \/ store_results("w1")
    \/ remove_job_dir("w1")
    \/ run_cleanup("w1")

LoopSpec == LoopInit /\ [][LoopNext]_vars

\* C11: with total duration > 0, a delivered segment ending at e gives
\* pct = min(floor(e / total * 90) + 5, 95), and progress = pct is committed
\* (and becomes the last report, at the current time) if and only if
\* pct - last >= 5, or >= 30 seconds have passed since the last report and
\* pct - last >= 1, where last starts at 5; nothing else is written by the
\* callback; no value above 95 is stored while the row is TRANSCRIBING and
\* 100 is stored only by the write that stores DONE.
ThrottleRule(last_pct, elapsed, seg_end, total) ==
    LET raw == ((seg_end * 90) \div total) + 5
        pct == IF raw < 95 THEN raw ELSE 95
    IN  IF pct - last_pct >= 5 \/ (elapsed >= 30 /\ pct - last_pct >= 1)
        THEN Some(pct) ELSE None
MaxTracks == 2
TrackLangs == {"de", "en", "fr", "ja"}
KeySeqs ==
    {ks \in UNION {[1..n -> TrackLangs] : n \in 0..MaxTracks} :
        \A i, k \in 1..Len(ks) : i /= k => ks[i] /= ks[k]}
Preferred == {None, Some(""), Some("en"), Some("fr")}
SelectorCalls ==
    [fn : {"_select_subtitle_key"}, subtitles : KeySeqs, auto_captions : KeySeqs,
     language : Preferred, result : {None}]

SelectorInit == Idle /\ call \in SelectorCalls

\* The call returns: result holds the returned value.
select_track ==
    /\ call.fn = "_select_subtitle_key"
    /\ call.result = None
    /\ call' = [call EXCEPT !.result =
                   Some(_select_subtitle_key(call.subtitles, call.auto_captions,
                                             call.language))]
    /\ UNCHANGED <<jobs, queue, deliveries, dirs, now, ticks, shutdown, pc, loc, run>>

SelectorNext == select_track

SelectorSpec == SelectorInit /\ [][SelectorNext]_vars

Selected == call.fn = "_select_subtitle_key" /\ call.result /= None
Keys(ks) == {ks[i] : i \in 1..Len(ks)}

\* C12 (as stated): the selector returns the first match of (1) manual in
\* the preferred language, (2) auto in the preferred language, (3) manual in
\* de, then manual in en, (4) auto in de, then auto in en, (5) any manual
\* track, (6) any auto track.
C12_Cascade ==
    Selected =>
        LET manual == Keys(call.subtitles)
            auto == Keys(call.auto_captions)
            pref == IF call.language /= None /\ call.language[1] /= ""
                    THEN {call.language[1]} ELSE {}
            got == call.result[1]
        IN  IF pref \cap manual /= {} THEN got = Some(<<call.language[1], FALSE>>)
            ELSE IF pref \cap auto /= {} THEN got = Some(<<call.language[1], TRUE>>)
            ELSE IF "de" \in manual THEN got = Some(<<"de", FALSE>>)
            ELSE IF "en" \in manual THEN got = Some(<<"en", FALSE>>)
            ELSE IF "de" \in auto THEN got = Some(<<"de", TRUE>>)
            ELSE IF "en" \in auto THEN got = Some(<<"en", TRUE>>)
            ELSE IF manual /= {} THEN got /= None /\ got[1][1] \in manual /\ ~got[1][2]
            ELSE IF auto /= {} THEN got /= None /\ got[1][1] \in auto /\ got[1][2]
            ELSE got = None

\* C13: the selector returns None if and only if both track dicts are
\* empty, whatever the preferred language; a returned (key, is_auto) has its
\* key in the auto dict when is_auto and in the manual dict otherwise.
C13_SelectorTotal ==
    Selected =>
        LET got == call.result[1]
        IN  /\ got = None <=> (call.subtitles = <<>> /\ call.auto_captions = <<>>)
            /\ got /= None
                  => got[1][1] \in IF got[1][2] THEN Keys(call.auto_captions)
                                   ELSE Keys(call.subtitles)
\* A track of neither the preferred nor a default language is returned.
C13_Witness ==
    /\ Selected
    /\ call.language = Some("en")
    /\ call.subtitles = <<>>
    /\ call.result = Some(Some(<<"ja", TRUE>>))

\* ---------------------------------------------------- claims, continued
\* C14: a run that found its job reaches its end only through the finally
\* block: first the rmtree of its own directory (which removes it or fails
\* and leaves everything as it was), then the sweep; when the row was there
\* at each write, both come after the write of DONE or FAILED; and neither
\* step changes any job row.
C14_CleanupAlways ==
    /\ [](\A w \in Workers :
            (pc[w] \in {"finally", "cleanup"} /\ ~run[w].gone)
            => /\ Last(run[w].trace) \in Terminal
               /\ jobs[JobOf(w)].exists => jobs[JobOf(w)].status = Last(run[w].trace))
    /\ [][\A w \in Workers :
             /\ (pc'[w] = "idle" /\ pc[w] /= "idle") => pc[w] = "cleanup"
             /\ (pc'[w] = "cleanup" /\ pc[w] /= "cleanup")
                   => /\ pc[w] = "finally"
                      /\ dirs' = dirs \/ dirs' = [dirs EXCEPT ![JobOf(w)] = NoDir]
             /\ (pc[w] \in {"finally", "cleanup"} /\ pc'[w] /= pc[w])
                   => /\ jobs' = jobs
                      /\ run'[w].trace = run[w].trace]_vars
\* A failed run whose directory could not be removed has ended, and its row
\* still holds the failure.
C14_Witness ==
    \E w \in Workers :
        /\ Ended(w) /\ Kept(w)
        /\ dirs[JobOf(w)] /= NoDir
        /\ jobs[JobOf(w)].status = FAILED
        /\ jobs[JobOf(w)].error = Some("DownloadError: Video unavailable")

\* C17: a delivery of an id that has no row returns at once: no row is
\* created or changed, nothing is recorded, no directory is touched, and
\* fetch_subtitles, extract_audio and transcribe_audio are not invoked.
C17_MissingJob ==
    [][\A w \in Workers :
          (/\ deliveries' = deliveries + 1
           /\ pc[w] = "idle"
           /\ loc'[w].job_id /= None
           /\ (loc'[w] /= loc[w] \/ run'[w] /= run[w] \/ pc'[w] /= pc[w])
           /\ ~jobs[loc'[w].job_id[1]].exists)
          => /\ jobs' = jobs
             /\ dirs' = dirs
             /\ pc'[w] = "idle"
             /\ run'[w].outcome = "returned"
             /\ run'[w].trace = <<>>
             /\ run'[w].captions = None
             /\ run'[w].audio = 0 /\ run'[w].recog = 0]_vars
C17_Witness ==
    \E w \in Workers :
        /\ pc[w] = "idle"
        /\ run[w].gone /\ run[w].outcome = "returned" /\ run[w].trace = <<>>
        /\ loc[w].job_id /= None /\ ~jobs[JobOf(w)].exists

\* ------------------------------------------------- the sweeper on its own
\* cleanup_old_files called on a data_dir that exists or not and holds up
\* to MaxEntries entries: nothing, a file or a directory, with modification
\* times that put its age above, at and below the maximum age.
MaxEntries == 3
EntryNames == 1..MaxEntries
SweepTime == max_age_seconds + 2
NoEntry == [kind |-> "none", mtime |-> 0]
Entries == {NoEntry} \cup [kind : {"file", "dir"}, mtime : {1, 2, 3}]
SweepCalls ==
    {c \in [fn : {"cleanup_old_files"}, root_exists : BOOLEAN,
            entries : [EntryNames -> Entries], time : {SweepTime},
            failing : SUBSET EntryNames, result : {None}] :
        /\ ~c.root_exists => \A n \in EntryNames : c.entries[n] = NoEntry
        /\ \A n \in c.failing : c.entries[n].kind = "dir"}

\* A faulty cleanup_old_files: a directory whose age equals the maximum is
\* removed too.
cleanup_root_inclusive(root_exists, entries, t, failing) ==
    LET stale == {n \in DOMAIN entries : /\ entries[n].kind = "dir"
                                         /\ t - entries[n].mtime >= max_age_seconds}
    IN  IF ~root_exists THEN [removed |-> 0, entries |-> entries]
        ELSE [removed |-> Cardinality(stale),
              entries |-> [n \in DOMAIN entries |->
                              IF n \in stale \ failing THEN NoEntry ELSE entries[n]]]

\* cleanup_old_files: 0 when data_dir does not exist; otherwise every entry
\* that is a directory with now - st_mtime > max_age_seconds is given to
\* rmtree(ignore_errors=True) and counted. failing: where rmtree fails.
cleanup_root(root_exists, entries, t, failing) ==
    LET stale == {n \in DOMAIN entries : /\ entries[n].kind = "dir"
                                         /\ t - entries[n].mtime > max_age_seconds}
    IN  IF ~root_exists THEN [removed |-> 0, entries |-> entries]
        ELSE [removed |-> Cardinality(stale),
              entries |-> [n \in DOMAIN entries |->
                              IF n \in stale \ failing THEN NoEntry ELSE entries[n]]]

SweepInit == Idle /\ call \in SweepCalls

\* The call returns: result holds the count and what data_dir holds then.
sweep ==
    /\ call.fn = "cleanup_old_files"
    /\ call.result = None
    /\ call' = [call EXCEPT !.result =
                   Some(cleanup_root(call.root_exists, call.entries, call.time,
                                     call.failing))]
    /\ UNCHANGED <<jobs, queue, deliveries, dirs, now, ticks, shutdown, pc, loc, run>>

SweepNext == sweep

SweepSpec == SweepInit /\ [][SweepNext]_vars

Swept == call.fn = "cleanup_old_files" /\ call.result /= None

\* C15: the sweeper removes an entry only if it is a directory and now
\* minus its modification time is more than 24 hours; a directory whose age
\* is equal to or below that, and every entry that is not a directory, is
\* still there afterwards; a directory above it is removed unless rmtree
\* fails; a missing root gives 0 and nothing else.
C15_SweeperSelection ==
    Swept =>
        LET after == call.result[1]
        IN  /\ \A n \in EntryNames :
                  LET e == call.entries[n]
                      age == call.time - e.mtime
                  IN  /\ after.entries[n] \in {e, NoEntry}
                      /\ (e /= NoEntry /\ after.entries[n] = NoEntry)
                            => e.kind = "dir" /\ age > 24 * 3600
                      /\ (e.kind = "dir" /\ age <= 24 * 3600) => after.entries[n] = e
                      /\ e.kind = "file" => after.entries[n] = e
                      /\ (e.kind = "dir" /\ age > 24 * 3600 /\ n \notin call.failing)
                            => after.entries[n] = NoEntry
            /\ after.removed <= Cardinality({n \in EntryNames : call.entries[n].kind = "dir"})
            /\ ~call.root_exists => after.removed = 0 /\ after.entries = call.entries
\* One directory a second above the maximum age is removed, one exactly at
\* it is kept.
C15_Witness ==
    /\ Swept
    /\ call.entries[1] = [kind |-> "dir", mtime |-> 1]
    /\ call.entries[2] = [kind |-> "dir", mtime |-> 2]
    /\ call.result[1].entries[1] = NoEntry
    /\ call.result[1].entries[2] = call.entries[2]
    /\ call.result[1].removed = 1

\* ------------------------------------------- two workers, two jobs
\* Each worker process runs one job; a run may last longer than the maximum
\* age of a directory (both are settings: job_timeout_seconds and
\* cleanup_max_age_hours).
MaxLongWaits == 1

\* Time passes: more than the maximum age, while runs are in progress.
LongWait ==
    /\ ticks < MaxLongWaits
    /\ now' = now + max_age_seconds + 1
    /\ ticks' = ticks + 1
    /\ UNCHANGED <<jobs, queue, deliveries, dirs, shutdown, pc, loc, run, call>>

\* The steps of a run that has loaded its row.
RunStep(w) ==
    \/ set_downloading(w)
    \/ try_subtitles(w)
    \/ finish_subtitles(w)
    \/ extract_audio(w)
    \/ set_transcribing(w)
    \/ transcribe_audio(w)
    \/ next_segment(w)
    \/ engine_raises(w)
    \/ store_results(w)
    \/ handle_exception(w)
    \/ remove_job_dir(w)
    \/ run_cleanup(w)

RaceNext ==
    \/ \E j \in JobIds : create_job(j, None)
    \/ process_job("w1", "j1")
    \/ process_job("w2", "j2")
    \/ LongWait
    \/ \E w \in Workers : RunStep(w)

RaceSpec == Init /\ [][RaceNext]_vars

\* C16 (as stated): the sweep at the end of one job's run never removes the
\* directory of another job whose run is in progress on another worker
\* (its row DOWNLOADING or TRANSCRIBING), however long that run has lasted.
\* Stated for the runs that still read their directory: the audio is
\* downloaded and the recognition has not returned.
C16_LiveDirKept ==
    [][\A w, v \in Workers :
          (/\ w /= v
           /\ pc[w] = "cleanup" /\ pc'[w] = "idle"
           /\ pc[v] \in {"set_transcribing", "transcribe_audio", "segments"}
           /\ JobOf(v) /= JobOf(w)
           /\ jobs[JobOf(v)].exists
           /\ jobs[JobOf(v)].status \in {DOWNLOADING, TRANSCRIBING})
          => dirs'[JobOf(v)] = dirs[JobOf(v)]]_vars

\* ------------------------------------------------ the json3 decoder alone
\* Text is a sequence of characters. A JSON value that may be missing or
\* null is a record: has (the key is there), null, and the value.
IsSpace(c) == c \in {" ", "\n"}
RECURSIVE LStrip(_)
LStrip(t) == IF t /= <<>> /\ IsSpace(Head(t)) THEN LStrip(Tail(t)) ELSE t
RECURSIVE RStrip(_)
RStrip(t) ==
    IF t /= <<>> /\ IsSpace(t[Len(t)]) THEN RStrip(SubSeq(t, 1, Len(t) - 1)) ELSE t
\* str.strip()
strip(t) == RStrip(LStrip(t))
\* sep.join(parts)
RECURSIVE join(_, _)
join(sep, parts) ==
    IF parts = <<>> THEN <<>>
    ELSE IF Len(parts) = 1 THEN parts[1]
    ELSE parts[1] \o sep \o join(sep, Tail(parts))

\* x / 1000.0 of a number of milliseconds: seconds and thousandths.
Seconds(ms) == [s |-> ms \div 1000, ms |-> ms % 1000]
TimedSegment(start, end, text) == [start |-> start, end |-> end, text |-> text]

Fragment(t) == [has |-> TRUE, null |-> FALSE, utf8 |-> t]
NullFragment == [has |-> TRUE, null |-> TRUE, utf8 |-> <<>>]
Millis(n) == [has |-> TRUE, null |-> FALSE, ms |-> n]
NoMillis == [has |-> FALSE, null |-> FALSE, ms |-> 0]
NullMillis == [has |-> TRUE, null |-> TRUE, ms |-> 0]
\* An event that is no JSON object.
NotAnObject == [dict |-> FALSE]

MaxEvents == 2
FragmentLists ==
    {<<>>,
     <<Fragment(<<"a">>)>>,
     <<Fragment(<<"a">>), Fragment(<<" ", "b", " ">>)>>,
     <<Fragment(<<>>), Fragment(<<"\n">>)>>,
     <<Fragment(<<"a">>), Fragment(<<" ">>), Fragment(<<"b">>)>>,
     <<Fragment(<<"a">>), NullFragment>>}
EventTimes ==
    {<<Millis(1500), Millis(2500)>>, <<NoMillis, NoMillis>>, <<NullMillis, Millis(2500)>>}
Events ==
    {NotAnObject}
    \cup {[dict |-> TRUE, segs |-> [has |-> FALSE, list |-> <<>>],
           tStartMs |-> t[1], dDurationMs |-> t[2]] : t \in EventTimes}
    \cup {[dict |-> TRUE, segs |-> [has |-> TRUE, list |-> l],
           tStartMs |-> t[1], dDurationMs |-> t[2]] : l \in FragmentLists, t \in EventTimes}
EventLists == UNION {[1..n -> Events] : n \in 0..MaxEvents}

\* A faulty text_parts: the fragments are not stripped.
RECURSIVE text_parts_unstripped(_)
text_parts_unstripped(segs) ==
    IF segs = <<>> THEN <<>>
    ELSE LET text == IF segs[1].has THEN segs[1].utf8 ELSE <<>>
         IN  (IF text /= <<>> /\ text /= <<"\n">> THEN <<text>> ELSE <<>>)
             \o text_parts_unstripped(Tail(segs))

\* text_parts: the stripped fragments that are not empty.
RECURSIVE text_parts(_)
text_parts(segs) ==
    IF segs = <<>> THEN <<>>
    ELSE LET text == strip(IF segs[1].has THEN segs[1].utf8 ELSE <<>>)
         IN  (IF text /= <<>> /\ text /= <<"\n">> THEN <<text>> ELSE <<>>)
             \o text_parts(Tail(segs))

\* The body of the loop of _parse_json3_subtitles for one event: "raise"
\* (an AttributeError or TypeError of a None or non-dict value), "skip"
\* (continue) or "append" with the segment.
parse_event(event) ==
    IF ~event.dict THEN [out |-> "raise"]
    ELSE IF ~event.segs.has \/ event.segs.list = <<>> THEN [out |-> "skip"]
    ELSE IF \E i \in 1..Len(event.segs.list) : event.segs.list[i].null
         THEN [out |-> "raise"]
    ELSE LET combined_text == strip(join(<<" ">>, text_parts(event.segs.list)))
             start_ms == event.tStartMs.ms
             duration_ms == event.dDurationMs.ms
         IN  IF combined_text = <<>> THEN [out |-> "skip"]
             ELSE IF event.tStartMs.null \/ event.dDurationMs.null
                  THEN [out |-> "raise"]
             ELSE [out |-> "append",
                   segment |-> TimedSegment(Seconds(start_ms),
                                            Seconds(start_ms + duration_ms),
                                            combined_text)]

\* _parse_json3_subtitles(data): the segments, or an exception.
RECURSIVE parse_events(_, _)
parse_events(events, segments) ==
    IF events = <<>> THEN [raised |-> FALSE, segments |-> segments]
    ELSE LET r == parse_event(events[1])
         IN  IF r.out = "raise" THEN [raised |-> TRUE, segments |-> <<>>]
             ELSE parse_events(Tail(events),
                               IF r.out = "append" THEN Append(segments, r.segment)
                               ELSE segments)
_parse_json3_subtitles(events) == parse_events(events, <<>>)

\* _fetch_and_parse_json3: the parsed segments, [] on any exception.
_fetch_and_parse_json3(events) ==
    IF _parse_json3_subtitles(events).raised THEN <<>>
    ELSE _parse_json3_subtitles(events).segments

Json3Init ==
    /\ Idle
    /\ call \in [fn : {"_fetch_and_parse_json3"}, events : EventLists, result : {None}]

\* The download has given the events; the call returns.
decode_json3 ==
    /\ call.fn = "_fetch_and_parse_json3"
    /\ call.result = None
    /\ call' = [call EXCEPT !.result =
                   Some([parsed |-> _parse_json3_subtitles(call.events),
                         segments |-> _fetch_and_parse_json3(call.events)])]
    /\ UNCHANGED <<jobs, queue, deliveries, dirs, now, ticks, shutdown, pc, loc, run>>

Json3Next == decode_json3

Json3Spec == Json3Init /\ [][Json3Next]_vars

Decoded3 == call.fn = "_fetch_and_parse_json3" /\ call.result /= None
\* An event is malformed when it is no object, or a time or a fragment's
\* text is null.
Malformed(event) ==
    \/ ~event.dict
    \/ event.tStartMs.null \/ event.dDurationMs.null
    \/ \E i \in 1..Len(event.segs.list) : event.segs.list[i].null
WellFormed(event) == ~Malformed(event)
HasFragments(event) == event.segs.has /\ event.segs.list /= <<>>
NonEmptyText(t) == t /= <<>>
\* The fragments of an event, each trimmed.
Trimmed(event) == [i \in 1..Len(event.segs.list) |-> strip(event.segs.list[i].utf8)]

\* C18 (as stated, for the json3 decoder): when exactly one event of the
\* input is malformed, the decode returns the segments of all the
\* well-formed events.
C18_DecoderTolerance ==
    (Decoded3 /\ Cardinality({i \in 1..Len(call.events) : Malformed(call.events[i])}) = 1)
    => call.result[1].segments
          = _parse_json3_subtitles(SelectSeq(call.events, WellFormed)).segments

\* C19 (as stated): for a list of well-formed events the decoder emits, in
\* order, one segment per event that has fragments and whose trimmed
\* fragments, joined by a single space (and trimmed), are not empty; the
\* text is that join, start = tStartMs / 1000 and
\* end = (tStartMs + dDurationMs) / 1000; other events emit nothing.
JoinedAll(event) == strip(join(<<" ">>, Trimmed(event)))
EmitsAll(event) == HasFragments(event) /\ JoinedAll(event) /= <<>>
C19_Json3AsStated ==
    (Decoded3 /\ \A i \in 1..Len(call.events) : WellFormed(call.events[i]))
    => LET emitting == SelectSeq(call.events, EmitsAll)
       IN  /\ ~call.result[1].parsed.raised
           /\ call.result[1].parsed.segments
                 = [i \in 1..Len(emitting) |->
                       [start |-> Seconds(emitting[i].tStartMs.ms),
                        end |-> Seconds(emitting[i].tStartMs.ms
                                        + emitting[i].dDurationMs.ms),
                        text |-> JoinedAll(emitting[i])]]

\* C19 (amended): as above, with the text being the join, by a single
\* space, of the trimmed fragments that are not empty: a fragment that is
\* empty after trimming adds no space.
JoinedNonEmpty(event) == join(<<" ">>, SelectSeq(Trimmed(event), NonEmptyText))
Emits(event) == HasFragments(event) /\ JoinedNonEmpty(event) /= <<>>
C19_Json3Decoder ==
    (Decoded3 /\ \A i \in 1..Len(call.events) : WellFormed(call.events[i]))
    => LET emitting == SelectSeq(call.events, Emits)
       IN  /\ ~call.result[1].parsed.raised
           /\ call.result[1].parsed.segments
                 = [i \in 1..Len(emitting) |->
                       [start |-> Seconds(emitting[i].tStartMs.ms),
                        end |-> Seconds(emitting[i].tStartMs.ms
                                        + emitting[i].dDurationMs.ms),
                        text |-> JoinedNonEmpty(emitting[i])]]
\* An event without fragments is skipped and an event with an empty
\* fragment between two words gives "a b" from 1.5 s to 4.0 s.
C19_Witness ==
    /\ Decoded3
    /\ Len(call.events) = 2
    /\ call.events[1].dict /\ ~call.events[1].segs.has
    /\ call.events[2].dict /\ Len(call.events[2].segs.list) = 3
    /\ call.result[1].segments
          = <<[start |-> [s |-> 1, ms |-> 500], end |-> [s |-> 4, ms |-> 0],
               text |-> <<"a", " ", "b">>]>>

\* --------------------------------------------------- the VTT decoder alone
\* The content is a sequence of lines. A line is a timing line (two stamps
\* around "-->") or any other line, given by its characters. A stamp has
\* optional hours, minutes, seconds, thousandths and the separator in
\* front of the thousandths.
MaxLines == 4
Stamp(hours, minutes, seconds, millis, sep) ==
    [hours |-> hours, minutes |-> minutes, seconds |-> seconds, millis |-> millis,
     sep |-> sep]
TimingLine(start, end) == [timing |-> TRUE, start |-> start, end |-> end]
OtherLine(chars) == [timing |-> FALSE, chars |-> chars]
TimingLines ==
    {TimingLine(Stamp(None, 1, 2, 500, "."), Stamp(None, 1, 4, 0, ".")),
     TimingLine(Stamp(Some(0), 1, 2, 500, ","), Stamp(None, 1, 4, 0, ",")),
     TimingLine(Stamp(None, 1, 2, 500, ","), Stamp(Some(0), 1, 4, 0, ".")),
     TimingLine(Stamp(Some(1), 1, 2, 500, "."), Stamp(Some(1), 1, 4, 0, ",")),
     TimingLine(Stamp(None, 1, 4, 0, "."), Stamp(None, 1, 2, 500, "."))}
OtherLines ==
    {OtherLine(<<>>),
     OtherLine(<<"1">>),
     OtherLine(<<"a">>),
     OtherLine(<<"<", "c", ">", " ", "a">>),
     OtherLine(<<"<", "c", ">">>)}
Contents == UNION {[1..n -> TimingLines \cup OtherLines] : n \in 0..MaxLines}

\* timestamp_re.match(line.strip()): the lines with two stamps whose
\* separators are "." or ","; no other line of the model has a stamp.
timestamp_re_match(line) ==
    line.timing /\ line.start.sep \in {".", ","} /\ line.end.sep \in {".", ","}

\* A faulty reading of a stamp: the hours are dropped.
stamp_seconds_no_hours(stamp) ==
    [s |-> stamp.minutes * 60 + stamp.seconds, ms |-> stamp.millis]

\* h * 3600 + m * 60 + s + ms / 1000.0, the hours 0 when the group is empty.
stamp_seconds(stamp) ==
    LET h == IF stamp.hours /= None THEN stamp.hours[1] ELSE 0
    IN  [s |-> h * 3600 + stamp.minutes * 60 + stamp.seconds, ms |-> stamp.millis]

\* re.sub(r"<[^>]+>", "", t): from the left, a "<" followed by at least
\* one character other than ">" and then a ">" is removed.
RECURSIVE re_sub_tags(_)
re_sub_tags(t) ==
    IF t = <<>> THEN <<>>
    ELSE IF /\ t[1] = "<"
            /\ \E j \in 3..Len(t) : t[j] = ">" /\ \A k \in 2..(j - 1) : t[k] /= ">"
         THEN LET j == CHOOSE j \in 3..Len(t) :
                           t[j] = ">" /\ \A k \in 2..(j - 1) : t[k] /= ">"
              IN  re_sub_tags(SubSeq(t, j + 1, Len(t)))
         ELSE <<t[1]>> \o re_sub_tags(Tail(t))

\* vtt_content.strip().split("\n"): the blank lines at both ends are gone;
\* an empty content splits into one empty line.
BlankLine(line) == ~line.timing /\ strip(line.chars) = <<>>
RECURSIVE drop_leading_blank(_)
drop_leading_blank(lines) ==
    IF lines /= <<>> /\ BlankLine(Head(lines)) THEN drop_leading_blank(Tail(lines))
    ELSE lines
RECURSIVE drop_trailing_blank(_)
drop_trailing_blank(lines) ==
    IF lines /= <<>> /\ BlankLine(lines[Len(lines)])
    THEN drop_trailing_blank(SubSeq(lines, 1, Len(lines) - 1))
    ELSE lines
split_lines(content) ==
    LET stripped == drop_trailing_blank(drop_leading_blank(content))
    IN  IF stripped = <<>> THEN <<OtherLine(<<>>)>> ELSE stripped

\* The inner loop: the text lines from line i up to a blank line or a
\* timing line, tags removed, the lines left empty dropped.
RECURSIVE collect_text(_, _, _)
collect_text(lines, i, text_lines) ==
    IF /\ i <= Len(lines)
       /\ ~timestamp_re_match(lines[i])
       /\ strip(lines[i].chars) /= <<>>
    THEN LET clean == re_sub_tags(strip(lines[i].chars))
         IN  collect_text(lines, i + 1,
                          IF clean /= <<>> THEN Append(text_lines, clean)
                          ELSE text_lines)
    ELSE [i |-> i, text_lines |-> text_lines]

\* The outer loop of _parse_vtt_subtitles.
RECURSIVE parse_lines(_, _, _)
parse_lines(lines, i, segments) ==
    IF i > Len(lines) THEN segments
    ELSE IF timestamp_re_match(lines[i])
         THEN LET start == stamp_seconds(lines[i].start)
                  end == stamp_seconds(lines[i].end)
                  cue == collect_text(lines, i + 1, <<>>)
                  text == strip(join(<<" ">>, cue.text_lines))
              IN  parse_lines(lines, cue.i,
                              IF text /= <<>>
                              THEN Append(segments, TimedSegment(start, end, text))
                              ELSE segments)
         ELSE parse_lines(lines, i + 1, segments)

_parse_vtt_subtitles(vtt_content) == parse_lines(split_lines(vtt_content), 1, <<>>)

VttInit ==
    /\ Idle
    /\ call \in [fn : {"_parse_vtt_subtitles"}, vtt_content : Contents, result : {None}]

\* The call returns its segments.
decode_vtt ==
    /\ call.fn = "_parse_vtt_subtitles"
    /\ call.result = None
    /\ call' = [call EXCEPT !.result = Some(_parse_vtt_subtitles(call.vtt_content))]
    /\ UNCHANGED <<jobs, queue, deliveries, dirs, now, ticks, shutdown, pc, loc, run>>

VttNext == decode_vtt

VttSpec == VttInit /\ [][VttNext]_vars

DecodedVtt == call.fn = "_parse_vtt_subtitles" /\ call.result /= None
\* The value of a stamp, read off the stamp with its hours written out
\* and its separator a ".".
Canonical(stamp) ==
    [stamp EXCEPT !.sep = ".",
                  !.hours = IF stamp.hours = None THEN Some(0) ELSE stamp.hours]
StampValue(stamp) ==
    [s |-> Canonical(stamp).hours[1] * 3600 + Canonical(stamp).minutes * 60
             + Canonical(stamp).seconds,
     ms |-> Canonical(stamp).millis]
\* The number of text lines of the cue whose timing line is line i: the
\* lines after it up to a blank line, a timing line or the end.
CueLength(c, i) ==
    Cardinality({j \in (i + 1)..Len(c) :
                    \A k \in (i + 1)..j : ~c[k].timing /\ ~BlankLine(c[k])})
\* The text lines of the cue, each trimmed and with its tags removed.
CueTextLines(c, i) == [n \in 1..CueLength(c, i) |-> re_sub_tags(strip(c[i + n].chars))]
JoinedLines(c, i) == strip(join(<<" ">>, CueTextLines(c, i)))
JoinedNonEmptyLines(c, i) ==
    strip(join(<<" ">>, SelectSeq(CueTextLines(c, i), NonEmptyText)))
\* The segments of a content whose cue texts are given by Text: one per
\* timing line whose cue text is not empty, in the order of the lines.
CueSegments(c, Text(_, _)) ==
    LET cues == {i \in 1..Len(c) : c[i].timing /\ Text(c, i) /= <<>>}
        Nth(n) == CHOOSE i \in cues : Cardinality({k \in cues : k < i}) = n - 1
    IN  [n \in 1..Cardinality(cues) |->
            [start |-> StampValue(c[Nth(n)].start),
             end |-> StampValue(c[Nth(n)].end),
             text |-> Text(c, Nth(n))]]

\* C20 (as stated): the decoder returns one segment per timing line whose
\* cue text is not empty, with the start and end the stamps denote
\* whatever the separator and whether or not the hours are written; the
\* cue text is the text lines up to a blank line or the next timing line,
\* tags removed, joined by one space (and trimmed); no other line gives a
\* segment.
C20_VttAsStated ==
    DecodedVtt => call.result[1] = CueSegments(call.vtt_content, JoinedLines)

\* C20 (amended): as above, with the cue text being the join, by one
\* space, of the text lines that are not empty once their tags are
\* removed: a line of tags only adds no space.
C20_VttDecoder ==
    DecodedVtt => call.result[1] = CueSegments(call.vtt_content, JoinedNonEmptyLines)
\* A cue with hours written, a "," before the end's thousandths and a line
\* of tags only between two text lines gives "a a" from 3662.5 s to 3664 s.
C20_Witness ==
    /\ DecodedVtt
    /\ call.vtt_content
          = <<TimingLine(Stamp(Some(1), 1, 2, 500, "."), Stamp(Some(1), 1, 4, 0, ",")),
              OtherLine(<<"a">>), OtherLine(<<"<", "c", ">">>), OtherLine(<<"a">>)>>
    /\ call.result[1]
          = <<[start |-> [s |-> 3662, ms |-> 500], end |-> [s |-> 3664, ms |-> 0],
               text |-> <<"a", " ", "a">>]>>

\* ------------------------------------------- claims on the pipeline, continued
\* C21: the flag of a worker process is false at its start; once true it
\* stays true, whatever step is taken (a second request_stop, the start or
\* the end of a run); and every call of check_shutdown made while it is true
\* raises ShutdownInterrupt: the segment is not accepted and nothing is
\* written.
C21_FlagSetOnce ==
    /\ \A w \in Workers : ~shutdown[w]
    /\ [][\A w \in Workers :
             /\ shutdown[w] => shutdown'[w]
             /\ (shutdown[w] /\ run'[w].checks = run[w].checks + 1)
                   => /\ pc'[w] = "except"
                      /\ loc'[w].exc = Some(ShutdownInterrupt)
                      /\ loc'[w].segments = <<>>
                      /\ jobs' = jobs]_vars
\* The flag was set after a first segment had been accepted; the check at
\* the second one raised, the run has ended and the flag is still set.
C21_Witness ==
    \E w \in Workers :
        /\ shutdown[w]
        /\ Ended(w) /\ Kept(w)
        /\ run[w].checks = 2
        /\ loc[w].exc = Some(ShutdownInterrupt)
        /\ jobs[JobOf(w)].status = FAILED

\* ------------------------------------------------- the service left alone
\* One worker process and the requests for one job, with time going on for
\* ever. The clock is kept up to Horizon, beyond which every directory of
\* the model is stale and no comparison of the sweeper changes any more;
\* ticks is the clock's hand, which moves at every advance.
Horizon == 2 * (max_age_seconds + 1)

\* Time passes: more than the maximum age of a directory.
DayPasses ==
    /\ now' = Min(now + max_age_seconds + 1, Horizon)
    /\ ticks' = (ticks + 1) % 2
    /\ UNCHANGED <<jobs, queue, deliveries, dirs, shutdown, pc, loc, run, call>>

QuietNext ==
    \/ create_job("j1", None)
    \/ process_job("w1", "j1")
    \/ DayPasses
    \/ RunStep("w1")

\* Time keeps advancing and a run in progress keeps going; requests and
\* deliveries happen or not.
QuietSpec ==
    Init /\ [][QuietNext]_vars /\ WF_vars(DayPasses) /\ WF_vars(RunStep("w1"))

\* C22 (as stated): while time keeps advancing, a stale directory in the
\* storage root of an idle service is followed by a run of the sweeper,
\* also when no job is dispatched.
C22_PeriodicSweep ==
    \A j \in JobIds :
        (/\ dirs[j] /= NoDir /\ now - dirs[j] > max_age_seconds
         /\ \A w \in Workers : pc[w] = "idle")
        ~> (dirs[j] = NoDir \/ \E w \in Workers : pc[w] = "cleanup")

\* --------------------------------------------- the timestamp formatters
\* A time is a whole number of tenths of a millisecond. tie_up says how
\* round() falls out when the fraction, as the float the program holds, is
\* half way between two milliseconds.
MaxHours == 1
Unit == 10000
Fractions == {0, 4, 5, 10, 5000, 9994, 9995, 9996}
TimeValues ==
    {h * 3600 * Unit + m * 60 * Unit + s * Unit + f :
        h \in 0..MaxHours, m \in {0, 59}, s \in {0, 59}, f \in Fractions}

DigitChars == <<"0", "1", "2", "3", "4", "5", "6", "7", "8", "9">>
\* The decimal digits of a natural number.
RECURSIVE Digits(_)
Digits(n) == IF n < 10 THEN <<DigitChars[n + 1]>>
             ELSE Digits(n \div 10) \o <<DigitChars[(n % 10) + 1]>>
\* f"{n:0<width>d}": the digits, with zeros in front up to the width.
RECURSIVE ZeroPad(_, _)
ZeroPad(digits, width) ==
    IF Len(digits) >= width THEN digits ELSE ZeroPad(<<"0">> \o digits, width)
FormatD(n, width) == ZeroPad(Digits(n), width)

\* int(round((seconds - int(seconds)) * 1000))
round_millis(seconds, tie_up) ==
    LET fraction == seconds % Unit
        rest == fraction % 10
    IN  (fraction \div 10) + (IF rest > 5 \/ (rest = 5 /\ tie_up) THEN 1 ELSE 0)

\* The body the two formatters share, with the separator sep.
format_timestamp(seconds, tie_up, sep) ==
    LET hours == seconds \div (3600 * Unit)
        minutes == (seconds % (3600 * Unit)) \div (60 * Unit)
        secs == (seconds % (60 * Unit)) \div Unit
        millis == round_millis(seconds, tie_up)
    IN  FormatD(hours, 2) \o <<":">> \o FormatD(minutes, 2) \o <<":">>
        \o FormatD(secs, 2) \o <<sep>> \o FormatD(millis, 3)

format_timestamp_srt(seconds, tie_up) == format_timestamp(seconds, tie_up, ",")
format_timestamp_vtt(seconds, tie_up) == format_timestamp(seconds, tie_up, ".")

FormatInit ==
    /\ Idle
    /\ call \in [fn : {"format_timestamp"}, seconds : TimeValues, tie_up : BOOLEAN,
                 result : {None}]

\* Both formatters are called on the same time and return.
format_both ==
    /\ call.fn = "format_timestamp"
    /\ call.result = None
    /\ call' = [call EXCEPT !.result =
                   Some([srt |-> format_timestamp_srt(call.seconds, call.tie_up),
                         vtt |-> format_timestamp_vtt(call.seconds, call.tie_up)])]
    /\ UNCHANGED <<jobs, queue, deliveries, dirs, now, ticks, shutdown, pc, loc, run>>

FormatNext == format_both

FormatSpec == FormatInit /\ [][FormatNext]_vars

Formatted == call.fn = "format_timestamp" /\ call.result /= None
IsDigit(c) == \E d \in 1..10 : DigitChars[d] = c
DigitValue(c) == (CHOOSE d \in 1..10 : DigitChars[d] = c) - 1
TwoDigits(t, i) == DigitValue(t[i]) * 10 + DigitValue(t[i + 1])
\* Whether t reads HH:MM:SS<sep>mmm, and the milliseconds it then denotes.
WellShaped(t, sep) ==
    /\ Len(t) = 12
    /\ \A i \in {1, 2, 4, 5, 7, 8, 10, 11, 12} : IsDigit(t[i])
    /\ t[3] = ":" /\ t[6] = ":" /\ t[9] = sep
Denoted(t) ==
    ((TwoDigits(t, 1) * 60 + TwoDigits(t, 4)) * 60 + TwoDigits(t, 7)) * 1000
    + DigitValue(t[10]) * 100 + TwoDigits(t, 11)

\* C23 (as stated): both formatters return HH:MM:SS, the separator ("," for
\* SRT, "." for VTT) and exactly three digits; the time denoted is the input
\* to the millisecond (at most half a millisecond away); the two outputs
\* differ in the separator only.
C23_TimestampFormat ==
    Formatted =>
        LET srt == call.result[1].srt
            vtt == call.result[1].vtt
        IN  /\ WellShaped(srt, ",") /\ WellShaped(vtt, ".")
            /\ Denoted(srt) * 10 - call.seconds \in -5..5
            /\ Denoted(vtt) * 10 - call.seconds \in -5..5
            /\ \A i \in 1..12 : i /= 9 => srt[i] = vtt[i]

\* ------------------------------------------- claims on the pipeline, resumed
\* A step of the run of worker w.
Moves(w) == pc'[w] /= pc[w] \/ loc'[w] /= loc[w]
\* The flag is set and the run of w is in the loop of transcribe_audio.
Observing(w) == shutdown[w] /\ pc[w] = "segments"
\* The flag is looked at only in the loop of transcribe_audio, once per
\* segment the engine yields: not in the caption phase, the audio fetch or
\* a write.
OnlyInLoop(w) ==
    /\ (pc[w] \notin {"idle", "segments"} /\ Moves(w))
          => /\ run'[w].checks = run[w].checks
             /\ loc'[w].exc /= Some(ShutdownInterrupt) \/ loc'[w].exc = loc[w].exc
    /\ (pc[w] = "segments" /\ pc'[w] = "finally") => run'[w].checks = run[w].checks
    /\ (pc[w] = "segments" /\ Len(loc'[w].segments) = Len(loc[w].segments) + 1)
          => run'[w].checks = run[w].checks + 1 /\ ~shutdown[w]

\* C24 (as stated): once the flag is set while the run is in the
\* recognition loop, the run accepts no further segment and commits no
\* further progress, and the next write it commits is FAILED; the flag is
\* looked at nowhere else.
C24_CancelOnlyAtCheck ==
    [][\A w \in Workers :
          /\ OnlyInLoop(w)
          /\ (Observing(w) /\ Moves(w))
                => /\ pc'[w] = "except"
                   /\ loc'[w].segments = <<>>
                   /\ run'[w].prog = run[w].prog
                   /\ jobs' = jobs
          /\ (shutdown[w] /\ pc[w] = "except" /\ run'[w].trace /= run[w].trace)
                => Last(run'[w].trace) = FAILED]_vars

\* C24 (amended): once the flag is set while the run is in the recognition
\* loop, the run accepts no further segment and commits no progress update;
\* when the engine yields a further segment the check raises before the
\* segment is appended or reported, and when the engine raises the run
\* fails likewise: the next write is FAILED; when the engine has no further
\* segment the run stores the segments accepted so far with DONE. The flag
\* is looked at nowhere else.
C24_CancelAtCheck ==
    [][\A w \in Workers :
          /\ OnlyInLoop(w)
          /\ (Observing(w) /\ Moves(w))
                => \/ /\ pc'[w] = "except"
                      /\ loc'[w].segments = <<>>
                      /\ run'[w].prog = run[w].prog
                      /\ jobs' = jobs
                      /\ run'[w].checks = run[w].checks + 1
                            => loc'[w].exc = Some(ShutdownInterrupt)
                   \/ /\ pc'[w] = "finally"
                      /\ run'[w].checks = run[w].checks
                      /\ run'[w].trace = Append(run[w].trace, DONE)
                      /\ jobs'[JobOf(w)].result_segments_json
                            = Some(segments_data(loc[w].segments))
          /\ (shutdown[w] /\ pc[w] = "except" /\ run'[w].trace /= run[w].trace)
                => Last(run'[w].trace) = FAILED]_vars
\* A segment was accepted and its progress committed; then the flag was set
\* and the check at the next segment has raised: nothing was written since.
C24_Witness ==
    \E w \in Workers :
        /\ shutdown[w] /\ pc[w] = "except"
        /\ loc[w].exc = Some(ShutdownInterrupt)
        /\ run[w].checks = 2
        /\ run[w].prog = Some(PctCeil)
        /\ jobs[JobOf(w)].exists
        /\ jobs[JobOf(w)].status = TRANSCRIBING /\ jobs[JobOf(w)].progress = PctCeil

\* C25 (as stated): in every reachable state a row's result_text and
\* result_segments_json are set only if its status is DONE, its error only
\* if its status is FAILED, and its completed_at if and only if its status
\* is DONE or FAILED; and no step changes a result, an error or a
\* completed_at that is set.
C25_FieldConsistency ==
    /\ [](\A j \in JobIds :
            jobs[j].exists
            => /\ jobs[j].result_text /= None => jobs[j].status = DONE
               /\ jobs[j].result_segments_json /= None => jobs[j].status = DONE
               /\ jobs[j].error /= None => jobs[j].status = FAILED
               /\ jobs[j].completed_at /= None <=> jobs[j].status \in Terminal)
    /\ [][\A j \in JobIds :
             (jobs[j].exists /\ jobs'[j].exists)
             => /\ jobs[j].result_text /= None
                      => jobs'[j].result_text = jobs[j].result_text
                /\ jobs[j].result_segments_json /= None
                      => jobs'[j].result_segments_json = jobs[j].result_segments_json
                /\ jobs[j].error /= None => jobs'[j].error = jobs[j].error
                /\ jobs[j].completed_at /= None
                      => jobs'[j].completed_at = jobs[j].completed_at]_vars

\* --------------------------------------------------- a worker that is killed
\* SIGKILL ends the worker process at any point of a run: no except block,
\* no finally block. The locals are kept in loc for reference only.
kill(w) ==
    /\ pc[w] \notin {"idle", "killed"}
    /\ pc' = [pc EXCEPT ![w] = "killed"]
    /\ run' = [run EXCEPT ![w].outcome = "killed"]
    /\ UNCHANGED <<jobs, queue, deliveries, dirs, now, ticks, shutdown, loc, call>>

CrashNext ==
    \/ create_job("j1", None)
    \/ Tick
    \/ request_stop("w1")
    \/ WorkerStep("w1")
    \/ kill("w1")

CrashSpec == Init /\ [][CrashNext]_vars

Killed(w) == pc[w] = "killed"
\* The run of w was killed inside transcribe_audio.
KilledInRecognition(w) ==
    Killed(w) /\ loc[w].result /= None /\ Last(run[w].trace) = TRANSCRIBING
\* What a kill leaves: the row holds the status and the progress the run
\* committed last (the loaded ones when it had committed none), is not
\* changed by the kill and is not written again by that run; a kill inside
\* transcribe_audio leaves TRANSCRIBING with the progress reported last and,
\* for a run that began in QUEUED, no error, result or completion time.
CrashKeepsLastWrite(w) ==
    Killed(w)
    => /\ jobs[JobOf(w)].exists
       /\ jobs[JobOf(w)].status = Last(run[w].trace)
       /\ run[w].prog /= None => jobs[JobOf(w)].progress = run[w].prog[1]
       /\ KilledInRecognition(w)
             => /\ jobs[JobOf(w)].status = TRANSCRIBING
                /\ jobs[JobOf(w)].progress = loc[w].last_reported.pct
                /\ jobs[JobOf(w)].progress \in PctFloor..PctCeil
                /\ run[w].trace[1] = QUEUED
                      => /\ jobs[JobOf(w)].error = None
                         /\ jobs[JobOf(w)].result_text = None
                         /\ jobs[JobOf(w)].completed_at = None
CrashWritesNothing(w) ==
    /\ (pc'[w] = "killed" /\ pc[w] /= "killed") => jobs' = jobs /\ dirs' = dirs
    /\ Killed(w) => pc'[w] = "killed" /\ jobs' = jobs /\ dirs' = dirs

\* C26 (as stated): a kill leaves the row as the run's last committed
\* write left it, TRANSCRIBING with the last progress when it comes during
\* recognition, whereas a run that is in the recognition loop with the flag
\* set and is not killed leaves the loop for the except block and writes
\* FAILED.
C26_CrashAsStated ==
    /\ [](\A w \in Workers : CrashKeepsLastWrite(w))
    /\ [][\A w \in Workers :
             /\ CrashWritesNothing(w)
             /\ (Observing(w) /\ Moves(w) /\ pc'[w] /= "killed") => pc'[w] = "except"
             /\ (pc[w] = "except" /\ Moves(w) /\ pc'[w] /= "killed")
                   => Last(run'[w].trace) = FAILED]_vars

\* C26 (amended): the same, the run that is not killed writing FAILED when
\* the engine yields a further segment or raises, and DONE when the engine
\* has no further segment.
C26_CrashVisibility ==
    /\ [](\A w \in Workers : CrashKeepsLastWrite(w))
    /\ [][\A w \in Workers :
             /\ CrashWritesNothing(w)
             /\ (Observing(w) /\ Moves(w) /\ pc'[w] /= "killed")
                   => \/ pc'[w] = "except"
                      \/ /\ pc'[w] = "finally"
                         /\ run'[w].checks = run[w].checks
                         /\ Last(run'[w].trace) = DONE
             /\ (Observing(w) /\ run'[w].checks = run[w].checks + 1)
                   => pc'[w] = "except" /\ loc'[w].exc = Some(ShutdownInterrupt)
             /\ (pc[w] = "except" /\ Moves(w) /\ pc'[w] /= "killed")
                   => Last(run'[w].trace) = FAILED]_vars
\* A run killed in the loop after a progress of 95 was committed: the row
\* is TRANSCRIBING at 95 and has no completion time.
C26_Witness ==
    \E w \in Workers :
        /\ KilledInRecognition(w)
        /\ Len(loc[w].segments) = 1
        /\ jobs[JobOf(w)].status = TRANSCRIBING
        /\ jobs[JobOf(w)].progress = PctCeil
        /\ jobs[JobOf(w)].completed_at = None

\* -------------------------------------------- claims on the pipeline, again
\* C27: on the fallback path the row, while it exists, is DOWNLOADING from
\* the first write of the run until extract_audio has returned; TRANSCRIBING
\* is committed by one write that also sets the title and the duration
\* extract_audio returned and progress 5 and changes nothing else, after
\* extract_audio has returned and before transcribe_audio is entered or a
\* segment delivered; and a run whose extract_audio raised commits FAILED
\* next and never TRANSCRIBING.
C27_PhaseOrder ==
    /\ [](\A w \in Workers :
            /\ (pc[w] \in {"fetch_subtitles", "extract_audio", "set_transcribing"}
                /\ jobs[JobOf(w)].exists)
                  => jobs[JobOf(w)].status = DOWNLOADING /\ Last(run[w].trace) = DOWNLOADING
            /\ (pc[w] \in {"except", "finally", "cleanup"}
                /\ loc[w].exc /= None /\ loc[w].exc[1] \in AudioErrors)
                  => /\ run[w].audio = 1 /\ run[w].recog = 0
                     /\ \A i \in 2..Len(run[w].trace) : run[w].trace[i] /= TRANSCRIBING
                     /\ (pc[w] /= "except" /\ ~run[w].gone)
                           => /\ Last(run[w].trace) = FAILED
                              /\ run[w].trace[Len(run[w].trace) - 1] = DOWNLOADING)
    /\ [][\A w \in Workers :
             (Moves(w) /\ run'[w].trace = Append(run[w].trace, TRANSCRIBING))
             => /\ pc[w] = "set_transcribing" /\ pc'[w] = "transcribe_audio"
                /\ run[w].audio = 1 /\ loc[w].result /= None
                /\ run[w].recog = 0 /\ run[w].checks = 0 /\ loc[w].segments = <<>>
                /\ jobs' = [jobs EXCEPT
                              ![JobOf(w)].status = TRANSCRIBING,
                              ![JobOf(w)].title = Some(loc[w].result[1].title),
                              ![JobOf(w)].duration_seconds = Some(loc[w].result[1].duration),
                              ![JobOf(w)].progress = 5]]_vars
\* The write has been made: TRANSCRIBING at 5 with title and duration, and
\* transcribe_audio not yet entered.
C27_Witness ==
    \E w \in Workers :
        /\ pc[w] = "transcribe_audio" /\ run[w].recog = 0
        /\ run[w].trace = <<QUEUED, DOWNLOADING, TRANSCRIBING>>
        /\ jobs[JobOf(w)].exists
        /\ jobs[JobOf(w)].status = TRANSCRIBING /\ jobs[JobOf(w)].progress = 5
        /\ jobs[JobOf(w)].title = Some("Title")
        /\ jobs[JobOf(w)].duration_seconds = Some(100)

\* The texts of a sequence of segments, one per line.
RECURSIVE TextOf(_)
TextOf(segs) ==
    IF segs = <<>> THEN ""
    ELSE IF Len(segs) = 1 THEN segs[1].text
    ELSE TextOf(SubSeq(segs, 1, Len(segs) - 1)) \o "\n" \o segs[Len(segs)].text
\* The row of job j holds segs as its result.
HoldsResult(row, segs) ==
    /\ row.result_segments_json /= None
    /\ Len(row.result_segments_json[1]) = Len(segs)
    /\ \A i \in 1..Len(segs) :
          /\ row.result_segments_json[1][i].start = segs[i].start
          /\ row.result_segments_json[1][i].end = segs[i].end
          /\ row.result_segments_json[1][i].text = segs[i].text
    /\ row.result_text = Some(TextOf(segs))

\* C28: the write of DONE stores, in the order produced, the segments of
\* the path that completed: the decoded caption segments on the fast path
\* (source "subtitles"), the segments accepted from the engine, each
\* appended behind the earlier ones, on the audio path (source "whisper");
\* result_text is their texts joined by newlines; a caption fetch that
\* decodes to no segment goes on to extract_audio, so that a row that is
\* DONE with source "subtitles" holds at least one segment.
C28_ResultConsistency ==
    /\ [](\A j \in JobIds :
            (jobs[j].exists /\ jobs[j].status = DONE)
            => /\ jobs[j].result_segments_json /= None
               /\ jobs[j].result_text = Some(TextOf(jobs[j].result_segments_json[1]))
               /\ jobs[j].source = Some("subtitles")
                     => Len(jobs[j].result_segments_json[1]) >= 1)
    /\ [][\A w \in Workers :
             /\ (Moves(w) /\ run'[w].trace = Append(run[w].trace, DONE))
                   => \/ /\ pc[w] = "finish_subtitles"
                         /\ run[w].captions[1].usable
                         /\ run[w].captions[1].found[1].decoded /= <<>>
                         /\ HoldsResult(jobs'[JobOf(w)], run[w].captions[1].found[1].decoded)
                         /\ jobs'[JobOf(w)].source = Some("subtitles")
                      \/ /\ pc[w] = "segments"
                         /\ HoldsResult(jobs'[JobOf(w)], loc[w].segments)
                         /\ jobs'[JobOf(w)].source = Some("whisper")
             /\ (pc[w] = "fetch_subtitles" /\ Moves(w))
                   => pc'[w] = IF run'[w].captions[1].usable THEN "finish_subtitles"
                               ELSE "extract_audio"
             /\ (pc[w] = "segments" /\ pc'[w] = "segments" /\ Moves(w))
                   => /\ Len(loc'[w].segments) = Len(loc[w].segments) + 1
                      /\ SubSeq(loc'[w].segments, 1, Len(loc[w].segments))
                            = loc[w].segments]_vars
\* Two segments accepted from the engine and stored in that order.
C28_Witness ==
    \E w \in Workers :
        /\ Ended(w) /\ Kept(w)
        /\ jobs[JobOf(w)].status = DONE
        /\ jobs[JobOf(w)].source = Some("whisper")
        /\ jobs[JobOf(w)].result_text = Some("a\nb")
        /\ Len(jobs[JobOf(w)].result_segments_json[1]) = 2
        /\ jobs[JobOf(w)].result_segments_json[1][1].text = "a"

\* ------------------------------------------- the decoders' segments
\* a <= b for two times in seconds and thousandths.
NotAfter(a, b) == a.s < b.s \/ (a.s = b.s /\ a.ms <= b.ms)

\* C29 (as stated, for the VTT decoder): every segment the decoder emits,
\* whatever the content, has end >= start and a text that is not empty,
\* and the segments are in the order of their cues: they are the segments
\* of timing lines that follow one another in the content.
C29_SegmentsWellFormed ==
    DecodedVtt =>
        LET segments == call.result[1]
            c == call.vtt_content
        IN  /\ \A i \in 1..Len(segments) :
                  /\ NotAfter(segments[i].start, segments[i].end)
                  /\ segments[i].text /= <<>>
            /\ \E cue \in [1..Len(segments) -> 1..Len(c)] :
                  /\ \A i \in 1..Len(segments) :
                        /\ c[cue[i]].timing
                        /\ segments[i].start = StampValue(c[cue[i]].start)
                        /\ segments[i].end = StampValue(c[cue[i]].end)
                  /\ \A i, k \in 1..Len(segments) : i < k => cue[i] < cue[k]

\* C30 (as stated): the count the sweeper returns is the number of
\* directories that are gone from the storage root after the call, also
\* when rmtree failed on some stale directory.
C30_SweeperCount ==
    Swept =>
        call.result[1].removed
            = Cardinality({n \in EntryNames :
                              /\ call.entries[n].kind = "dir"
                              /\ call.result[1].entries[n] = NoEntry})


\* ------------------------------------------------ a long recognition phase
\* The recognition loop with an engine that yields more segments than there
\* are progress values: the k-th segment ends at k * pace seconds and is
\* yielded gap seconds after the one before it. The pace and the gap are
\* those of the medium and the machine and do not change during a run.
MaxEngineSegs == 92
LongDurations == {0, 90, 100}
Paces == {0, 1, 5, 10}
Gaps == {0, 29, 30}

\* The run's count of committed writes of the callback, and whether every
\* segment so far was delivered less than 30 seconds after last_reported.time.
LongInit ==
    /\ \E d \in LongDurations : Recognising(d)
    /\ \E p \in Paces, g \in Gaps :
          call = [fn |-> "transcribe_audio", pace |-> p, gap |-> g,
                  writes |-> 0, quick |-> TRUE]

\* The engine works on its next segment while time.monotonic() advances.
engine_works(w) ==
    /\ pc[w] = "segments"
    /\ ticks = Len(loc[w].segments)
    /\ ticks < MaxEngineSegs
    /\ now' = now + call.gap
    /\ ticks' = ticks + 1
    /\ UNCHANGED <<jobs, queue, deliveries, dirs, shutdown, pc, loc, run, call>>

\* One turn of the loop of transcribe_audio with the segment the engine has
\* worked on. last_reported is assigned after a committed write of the
\* callback and nowhere else.
engine_segment(w) ==
    /\ pc[w] = "segments"
    /\ ticks = Len(loc[w].segments) + 1
    /\ LET k == ticks
           seg == Segment((k - 1) * call.pace, k * call.pace, "a")
       IN  IF check_shutdown(shutdown[w]) /= None
           THEN /\ Raise(w, check_shutdown(shutdown[w])[1])
                /\ run' = [run EXCEPT ![w].checks = @ + 1]
                /\ jobs' = jobs
           ELSE _on_segment(w, seg, [loc[w] EXCEPT !.segments = Append(@, seg)])
    /\ call' = [call EXCEPT
                  !.writes = IF loc'[w].last_reported /= loc[w].last_reported
                             THEN @ + 1 ELSE @,
                  !.quick = @ /\ now - loc[w].last_reported.time < TimeStep]
    /\ UNCHANGED <<queue, deliveries, dirs, now, ticks, shutdown>>

LongNext ==
    \/ engine_works("w1")
    \/ engine_segment("w1")
    \/ store_results("w1")
    \/ remove_job_dir("w1")
    \/ run_cleanup("w1")

LongSpec == LongInit /\ [][LongNext]_vars

\* C31: in one run the callback commits at most 90 progress writes however
\* many segments the engine yields, since each of them raises the stored
\* progress by at least 1 and stores a value in 5..95; it commits at most 18
\* when every segment is delivered less than 30 seconds after the write
\* before it.
C31_WriteBound ==
    /\ [](/\ call.writes <= 90
          /\ call.quick => call.writes <= 18)
    /\ [][\A w \in Workers :
             (/\ pc[w] = "segments" /\ pc'[w] = "segments"
              /\ jobs'[JobOf(w)] /= jobs[JobOf(w)])
             => /\ jobs'[JobOf(w)].progress >= jobs[JobOf(w)].progress + 1
                /\ jobs[JobOf(w)].progress \in 5..95
                /\ jobs'[JobOf(w)].progress \in 5..95
                /\ jobs' = [jobs EXCEPT ![JobOf(w)].progress =
                                           jobs'[JobOf(w)].progress]
                /\ call'.writes = call.writes + 1]_vars
\* 90 writes were committed, and the engine has yielded more segments than that.
C31_Witness ==
    /\ pc["w1"] = "segments"
    /\ call.writes = 90
    /\ Len(loc["w1"].segments) > 90
\* 18 writes were committed in a run whose segments all came within 30 seconds.
C31_QuickWitness ==
    /\ pc["w1"] = "segments"
    /\ call.quick /\ call.writes = 18
    /\ Len(loc["w1"].segments) > 18


\* --------------------------------------------- a deletion during a run
\* C32 (as stated): when delete_job has removed a job's row and directory
\* while process_job runs for that job, no later write of the run is
\* committed and the row stays absent, and once the run has ended the job's
\* directory does not exist, even if the worker made it after the deletion.
C32_DeletionAsStated ==
    /\ [](\A w \in Workers :
            run[w].purged
            => /\ ~jobs[JobOf(w)].exists
               /\ pc[w] = "idle" => dirs[JobOf(w)] = NoDir)
    /\ [][\A w \in Workers :
             (run[w].purged /\ run'[w].purged)
             => /\ run'[w].trace = run[w].trace
                /\ run'[w].prog = run[w].prog
                /\ run'[w].wrote_result = run[w].wrote_result]_vars

\* C32 (amended): after such a deletion no later write of the run is
\* committed and the row stays absent; the finally block of the run removes
\* the job's directory or, when its rmtree fails, leaves every directory as
\* it was, and from then on the directory is not made again.
C32_DeletionRace ==
    /\ [](\A w \in Workers : run[w].purged => ~jobs[JobOf(w)].exists)
    /\ [][\A w \in Workers :
             run[w].purged
             => /\ jobs' = jobs
                /\ run'[w].purged
                      => /\ run'[w].trace = run[w].trace
                         /\ run'[w].prog = run[w].prog
                         /\ run'[w].wrote_result = run[w].wrote_result
                /\ (pc[w] = "finally" /\ pc'[w] /= "finally")
                      => /\ pc'[w] = "cleanup"
                         /\ dirs' = dirs \/ dirs' = [dirs EXCEPT ![JobOf(w)] = NoDir]
                /\ pc[w] \in {"cleanup", "idle"}
                      => dirs'[JobOf(w)] \in {dirs[JobOf(w)], NoDir}]_vars
\* The row was deleted before the audio fetch; the run made the directory,
\* failed on its next write, removed the directory and has ended.
C32_Witness ==
    \E w \in Workers :
        /\ pc[w] = "idle" /\ run[w].purged /\ run[w].outcome = "raised"
        /\ run[w].trace = <<QUEUED, DOWNLOADING>>
        /\ run[w].audio = 1 /\ run[w].recog = 0
        /\ loc[w].exc = Some(JobNotFound(JobOf(w)))
        /\ dirs[JobOf(w)] = NoDir
\* The directory the worker made after the deletion, before the finally block.
C32_MadeAfterDeletion ==
    \E w \in Workers :
        /\ pc[w] = "finally" /\ run[w].purged
        /\ dirs[JobOf(w)] /= NoDir
        /\ ~jobs[JobOf(w)].exists


\* --------------------------------------------- one job on two workers
\* The dispatch queue hands the same job id to two worker processes whose
\* runs overlap. Each _update_job is one commit on the record store; the
\* commits of the two runs interleave in any order.
DupNext ==
    \/ create_job("j1", None)
    \/ \E w \in Workers : process_job(w, "j1")
    \/ \E w \in Workers : RunStep(w)

DupSpec == Init /\ [][DupNext]_vars

\* Both workers have run process_job for job j, each run found the row, and
\* both runs have ended.
BothEnded(j) ==
    \A w \in Workers : Ended(w) /\ JobOf(w) = j
\* The second run loaded the row while the first was under way.
Overlapped(w, v) ==
    /\ run[w].trace[1] = QUEUED
    /\ run[v].trace[1] \in {DOWNLOADING, TRANSCRIBING}

\* C33: when two workers run process_job for the same job id with their
\* writes interleaved in any order, then after both runs have ended the
\* job's status is DONE or FAILED: the one committed last by either run.
C33_DuplicateDelivery ==
    \A j \in JobIds :
        (BothEnded(j) /\ jobs[j].exists)
        => /\ jobs[j].status \in Terminal
           /\ \E w \in Workers : jobs[j].status = Last(run[w].trace)
           /\ \A w \in Workers : Last(run[w].trace) \in Terminal
\* Two overlapping runs have ended, one with FAILED and then the other with
\* DONE: the row is DONE and still holds the error of the failed run.
C33_Witness ==
    /\ BothEnded("j1")
    /\ Overlapped("w1", "w2")
    /\ Last(run["w2"].trace) = FAILED
    /\ Last(run["w1"].trace) = DONE
    /\ jobs["j1"].status = DONE
    /\ jobs["j1"].error /= None


\* ------------------------------------------- the creation request in steps
\* create_job as the handler runs it: the id is generated, the row is
\* committed, and after the awaits of commit and refresh the id is put on
\* the dispatch queue. Other requests and the worker run between the commit
\* and the refresh; refresh and enqueue follow each other without an await.
\* Ids are uuid4 values: one that was generated is not generated again.
NoRequests == [fn |-> "create_job", used |-> {}, committed |-> {}]

DispatchInit == Idle /\ call = NoRequests

\* A faulty create_job: the id is put on the queue before the row is added.
create_job_commit_enqueuing(j, lang) ==
    /\ j \notin call.used
    /\ queue' = queue \cup {j}
    /\ call' = [call EXCEPT !.used = @ \cup {j}, !.committed = @ \cup {j}]
    /\ UNCHANGED <<jobs, deliveries, dirs, now, ticks, shutdown, pc, loc, run>>

\* job = Job(id=uuid4, url, language, status=QUEUED); db.add(job); commit
create_job_commit(j, lang) ==
    /\ j \notin call.used
    /\ jobs' = [jobs EXCEPT ![j] = NewJob(lang)]
    /\ call' = [call EXCEPT !.used = @ \cup {j}, !.committed = @ \cup {j}]
    /\ UNCHANGED <<queue, deliveries, dirs, now, ticks, shutdown, pc, loc, run>>

\* db.refresh(job), which raises when the row is gone, and then
\* queue.enqueue(process_job, job.id), which raises when the queue cannot be
\* reached: in both cases the request fails and nothing is enqueued.
create_job_enqueue(j) ==
    /\ j \in call.committed
    /\ call' = [call EXCEPT !.committed = @ \ {j}]
    /\ \E enqueue_raises \in BOOLEAN :
          queue' = IF jobs[j].exists /\ ~enqueue_raises
                   THEN queue \cup {j} ELSE queue
    /\ UNCHANGED <<jobs, deliveries, dirs, now, ticks, shutdown, pc, loc, run>>

DispatchNext ==
    \/ \E j \in JobIds, lang \in RequestLangs : create_job_commit(j, lang)
    \/ \E j \in JobIds : create_job_enqueue(j)
    \/ \E j \in JobIds : delete_job(j)
    \/ WorkerStep("w1")

DispatchSpec == DispatchInit /\ [][DispatchNext]_vars


\* C34: create_job commits the row with status QUEUED before it enqueues the
\* id: a step that puts an id on the queue finds the row of that id, QUEUED,
\* committed by an earlier step that enqueued nothing; a row disappears only
\* in a step of delete_job (no step of the worker or of create_job); so a
\* delivery that finds no row is one of an id whose row existed at enqueue
\* time and was removed by delete_job in between.
C34_CreateThenDispatch ==
    /\ [](\A j \in queue : j \in call.used /\ j \notin call.committed)
    /\ [][/\ \A j \in JobIds :
                /\ (j \in queue' /\ j \notin queue)
                      => /\ jobs[j].exists /\ jobs[j].status = QUEUED
                         /\ jobs' = jobs
                /\ (jobs'[j].exists /\ ~jobs[j].exists)
                      => /\ \E lang \in RequestLangs : jobs'[j] = NewJob(lang)
                         /\ j \notin queue'
                /\ (jobs[j].exists /\ ~jobs'[j].exists)
                      => /\ j \in call.used
                         /\ pc' = pc /\ loc' = loc /\ queue' = queue /\ call' = call
          /\ \A w \in Workers :
                (/\ deliveries' = deliveries + 1 /\ pc[w] = "idle"
                 /\ loc'[w].job_id /= None
                 /\ ~jobs[loc'[w].job_id[1]].exists)
                => /\ loc'[w].job_id[1] \in queue
                   /\ loc'[w].job_id[1] \in call.used
                   /\ pc'[w] = "idle" /\ run'[w].outcome = "returned"]_vars
\* The row of an enqueued id was removed by delete_job before the delivery,
\* and the delivery has returned at once.
C34_Witness ==
    \E w \in Workers :
        /\ pc[w] = "idle" /\ run[w].outcome = "returned" /\ run[w].trace = <<>>
        /\ loc[w].job_id /= None
        /\ JobOf(w) \in queue /\ JobOf(w) \in call.used
        /\ ~jobs[JobOf(w)].exists
        /\ deliveries = 1


\* --------------------------------------- the converters and the decoder
\* to_srt and to_vtt return a text (a sequence of characters), and the VTT
\* decoder is applied to that text: vtt_content.strip().split("\n"), and on
\* every line the regular expression for timing lines.
MaxRoundSegs == 2

\* str.split(sep) for a separator of one character.
RECURSIVE split(_, _)
split(t, sep) ==
    IF \A i \in 1..Len(t) : t[i] /= sep THEN <<t>>
    ELSE LET i == CHOOSE i \in 1..Len(t) : t[i] = sep /\ \A k \in 1..(i - 1) : t[k] /= sep
         IN  <<SubSeq(t, 1, i - 1)>> \o split(SubSeq(t, i + 1, Len(t)), sep)

\* \s* from position i on: the first position that holds no white space.
RECURSIVE skip_spaces(_, _)
skip_spaces(t, i) == IF i <= Len(t) /\ IsSpace(t[i]) THEN skip_spaces(t, i + 1) ELSE i

\* (\d{1,2}:)?(\d{2}):(\d{2})[.,](\d{3}) at position i with n digits of
\* hours (n = 0: the group is empty): its length, whether it matches, and
\* the stamp it reads.
stamp_length(n) == IF n = 0 THEN 9 ELSE n + 10
stamp_at(t, i, n) ==
    LET b == IF n = 0 THEN i ELSE i + n + 1
    IN  /\ i >= 1 /\ i + stamp_length(n) - 1 <= Len(t)
        /\ n > 0 => (\A k \in i..(i + n - 1) : IsDigit(t[k])) /\ t[i + n] = ":"
        /\ IsDigit(t[b]) /\ IsDigit(t[b + 1]) /\ t[b + 2] = ":"
        /\ IsDigit(t[b + 3]) /\ IsDigit(t[b + 4]) /\ t[b + 5] \in {".", ","}
        /\ IsDigit(t[b + 6]) /\ IsDigit(t[b + 7]) /\ IsDigit(t[b + 8])
read_stamp(t, i, n) ==
    LET b == IF n = 0 THEN i ELSE i + n + 1
        hours == IF n = 0 THEN None
                 ELSE IF n = 1 THEN Some(DigitValue(t[i]))
                 ELSE Some(TwoDigits(t, i))
    IN  Stamp(hours, TwoDigits(t, b), TwoDigits(t, b + 3),
              DigitValue(t[b + 6]) * 100 + TwoDigits(t, b + 7), t[b + 5])
\* The digits of hours with which a stamp matches at position i, if any.
hours_digits(t, i) ==
    IF stamp_at(t, i, 2) THEN Some(2)
    ELSE IF stamp_at(t, i, 1) THEN Some(1)
    ELSE IF stamp_at(t, i, 0) THEN Some(0)
    ELSE None

\* timestamp_re.match(t): a stamp, \s*-->\s*, a stamp, from the first
\* character on; whatever follows is not looked at.
timestamp_re_groups(t) ==
    LET n1 == hours_digits(t, 1)
        j == skip_spaces(t, 1 + stamp_length(n1[1]))
        k == skip_spaces(t, j + 3)
        n2 == hours_digits(t, k)
    IN  IF n1 = None THEN None
        ELSE IF ~(j + 2 <= Len(t) /\ t[j] = "-" /\ t[j + 1] = "-" /\ t[j + 2] = ">")
             THEN None
        ELSE IF n2 = None THEN None
        ELSE Some(TimingLine(read_stamp(t, 1, n1[1]), read_stamp(t, k, n2[1])))

\* A line of the text as the decoder sees it.
read_line(chars) ==
    LET match == timestamp_re_groups(strip(chars))
    IN  IF match /= None THEN match[1] ELSE OtherLine(chars)

\* _parse_vtt_subtitles applied to a text.
parse_vtt_text(vtt_content) ==
    LET lines == split(strip(vtt_content), "\n")
    IN  parse_lines([i \in 1..Len(lines) |-> read_line(lines[i])], 1, <<>>)

\* A time of seconds and thousandths as the formatters' argument.
Units(time) == time.s * Unit + time.ms * (Unit \div 1000)
ArrowChars == <<" ", "-", "-", ">", " ">>

\* A faulty to_srt: no blank line after an entry.
to_srt_no_blank(segments, tie_up) ==
    join(<<"\n">>,
         [n \in 1..(3 * Len(segments)) |->
            LET i == ((n - 1) \div 3) + 1
                seg == segments[i]
            IN  IF n % 3 = 1 THEN Digits(i)
                ELSE IF n % 3 = 2
                     THEN format_timestamp_srt(Units(seg.start), tie_up) \o ArrowChars
                          \o format_timestamp_srt(Units(seg.end), tie_up)
                ELSE seg.text])

\* to_srt: for the i-th segment the lines str(i), "<start> --> <end>", the
\* text and an empty line; the lines joined by "\n".
to_srt(segments, tie_up) ==
    join(<<"\n">>,
         [n \in 1..(4 * Len(segments)) |->
            LET i == ((n - 1) \div 4) + 1
                seg == segments[i]
            IN  IF n % 4 = 1 THEN Digits(i)
                ELSE IF n % 4 = 2
                     THEN format_timestamp_srt(Units(seg.start), tie_up) \o ArrowChars
                          \o format_timestamp_srt(Units(seg.end), tie_up)
                ELSE IF n % 4 = 3 THEN seg.text
                ELSE <<>>])

\* to_vtt: "WEBVTT", an empty line, and for every segment the lines
\* "<start> --> <end>", the text and an empty line; joined by "\n".
to_vtt(segments, tie_up) ==
    join(<<"\n">>,
         <<<<"W", "E", "B", "V", "T", "T">>, <<>>>> \o
         [n \in 1..(3 * Len(segments)) |->
            LET i == ((n - 1) \div 3) + 1
                seg == segments[i]
            IN  IF n % 3 = 1
                THEN format_timestamp_vtt(Units(seg.start), tie_up) \o ArrowChars
                     \o format_timestamp_vtt(Units(seg.end), tie_up)
                ELSE IF n % 3 = 2 THEN seg.text
                ELSE <<>>])

\* The segments converted: times to the millisecond up to 58:59:59.999
\* (the formatters' argument, in units of 1/10000 s, stays below 2^31), and
\* texts with and without white space at their ends, of white space only,
\* of two lines, with a tag, and one that reads like a timing line.
RoundTimes ==
    {<<Seconds(0), Seconds(1500)>>, <<Seconds(1500), Seconds(36000000)>>,
     <<Seconds(3599999), Seconds(212399999)>>}
RoundTexts ==
    {<<"a">>, <<"a", " ", "b">>, <<"1">>, <<" ", "a">>, <<"a", " ">>, <<" ">>,
     <<"a", "\n", "b">>, <<"<", "c", ">", "a">>,
     format_timestamp_vtt(0, FALSE) \o ArrowChars \o format_timestamp_vtt(Unit, FALSE)}
RoundSegments ==
    {TimedSegment(times[1], times[2], text) : times \in RoundTimes, text \in RoundTexts}
RoundInputs == UNION {[1..n -> RoundSegments] : n \in 0..MaxRoundSegs}

RoundInit ==
    /\ Idle
    /\ call \in [fn : {"to_srt, to_vtt"}, segments : RoundInputs, tie_up : BOOLEAN,
                 texts : {None}, result : {None}]

\* Both converters are called on the segments and return their texts.
convert ==
    /\ call.fn = "to_srt, to_vtt"
    /\ call.texts = None
    /\ call' = [call EXCEPT !.texts = Some([srt |-> to_srt(call.segments, call.tie_up),
                                            vtt |-> to_vtt(call.segments, call.tie_up)])]
    /\ UNCHANGED <<jobs, queue, deliveries, dirs, now, ticks, shutdown, pc, loc, run>>

\* The decoder is called on each of the two texts and returns.
decode_texts ==
    /\ call.fn = "to_srt, to_vtt"
    /\ call.texts /= None /\ call.result = None
    /\ call' = [call EXCEPT !.result = Some([srt |-> parse_vtt_text(call.texts[1].srt),
                                             vtt |-> parse_vtt_text(call.texts[1].vtt)])]
    /\ UNCHANGED <<jobs, queue, deliveries, dirs, now, ticks, shutdown, pc, loc, run>>

RoundNext == convert \/ decode_texts

RoundSpec == RoundInit /\ [][RoundNext]_vars


Converted == call.fn = "to_srt, to_vtt" /\ call.result /= None
HasChar(t, c) == \E i \in 1..Len(t) : t[i] = c
\* A segment the round trip is stated for: times below 100 hours, a text
\* that is not empty, is one line, has no "<" and does not read as a
\* timing line.
Eligible(seg) ==
    /\ seg.start.s < 100 * 3600 /\ seg.end.s < 100 * 3600
    /\ seg.text /= <<>>
    /\ ~HasChar(seg.text, "\n") /\ ~HasChar(seg.text, "<")
    /\ timestamp_re_groups(strip(seg.text)) = None
NoOuterSpace(t) == strip(t) = t

\* C35 (as stated): for segments with times to the millisecond below 100
\* hours and non-empty one-line texts without "<" that do not read as a
\* timing line, the decoder applied to to_vtt(segments) and to
\* to_srt(segments) returns the same segments in the same order.
C35_RoundTripAsStated ==
    (Converted /\ \A i \in 1..Len(call.segments) : Eligible(call.segments[i]))
    => /\ call.result[1].vtt = call.segments
       /\ call.result[1].srt = call.segments

\* C35 (amended): the same for texts that neither begin nor end with white
\* space.
C35_RoundTrip ==
    (/\ Converted
     /\ \A i \in 1..Len(call.segments) :
           Eligible(call.segments[i]) /\ NoOuterSpace(call.segments[i].text))
    => /\ call.result[1].vtt = call.segments
       /\ call.result[1].srt = call.segments
\* Two segments, the first with the text "1" and the second ending at
\* 58:59:59.999, come back from both texts.
C35_Witness ==
    /\ Converted
    /\ call.segments
          = <<TimedSegment(Seconds(1500), Seconds(36000000), <<"1">>),
              TimedSegment(Seconds(3599999), Seconds(212399999), <<"a", " ", "b">>)>>
    /\ call.result[1].srt = call.segments
    /\ call.result[1].vtt = call.segments
    /\ split(call.texts[1].srt, "\n")[1] = <<"1">>
    /\ split(call.texts[1].srt, "\n")[5] = <<"2">>
    /\ split(call.texts[1].vtt, "\n")[1] = <<"W", "E", "B", "V", "T", "T">>

====
